---- MODULE Spec2Model ----
(***************************************************************************)
(* Shelf-label detection, candidate selection, cropping and OCR.            *)
(*                                                                         *)
(* LabelDetector (src/models/label_detector.py) and the selection and crop *)
(* methods of YOLOLabelDetector (src/models/yolo_label_detector.py) as a   *)
(* state machine: a detector is constructed, an image is handed to         *)
(* detection, one candidate is selected from the returned list and cropped *)
(* out of the image, the call returns (Spec).  SpecRepeat is a caller that *)
(* detects again and again; SpecOcr is extract_text_with_label_detection   *)
(* (src/models/ocr_with_label_detection.py).                               *)
(*                                                                         *)
(* Python floats are modelled as exact rationals <<n, d>> with d > 0, kept *)
(* in lowest terms.  What OpenCV computes from the pixels (the contours'   *)
(* bounding rectangles, the mean intensity of a region, the number of      *)
(* Canny edge pixels in it) and what the trained network returns are       *)
(* inputs of the actions, drawn from small sets.                           *)
(***************************************************************************)
EXTENDS Integers, Sequences, FiniteSets, TLC

VARIABLES
    config,       \* LabelDetector's seven fields, set by __init__
    yolo,         \* YOLOLabelDetector's fields: confidence_threshold, model_loaded
    pc,           \* position of the caller: "idle", "detected", "selected",
                  \* "cropped", "extracted", "failed"
    detector,     \* which detector produced `labels`: "none", "heuristic", "yolo"
    image_path,   \* the image_path argument of the running call
    image,        \* what cv2.imread gives for image_path
    debug,        \* the debug argument of the running detection call
    labels,       \* the list the detection call returned
    log,          \* what the detection loop decided for each contour, in order
    exc,          \* the exception the running call raised, "none" if it did not
    exc_msg,      \* the parts of that exception's message, <<>> if none
    strategy,     \* the strategy argument of the last get_best_label call
    best,         \* what get_best_label returned: 0 for None, else the position
                  \* in `labels` of the dict it returned
    debug_files,  \* files present in test_results/debug
    crop,         \* what the crop_to_label call was given and what it returned
    memo,         \* an earlier detect_shelf_labels call: its detector's
                  \* configuration, its arguments and its outcome
    ocr,          \* extract_text_with_label_detection's arguments, the OCR
                  \* calls it made, the dict it returned, the files it left
    web           \* the web application: whether the API key is configured,
                  \* the upload folder, session['last_upload'], and the last
                  \* /upload request's saved file and response

vars == <<config, yolo, pc, detector, image_path, image, debug, labels, log, exc,
          exc_msg, strategy, best, debug_files, crop, memo, ocr, web>>

----------------------------------------------------------------------------
(* Bounds *)

\* Longest list of contours (or of network detections) one image yields.
MaxContours == 3

----------------------------------------------------------------------------
(* Exact rational arithmetic standing for Python's float arithmetic *)

Abs(n) == IF n < 0 THEN -n ELSE n

RECURSIVE GCD(_, _)
GCD(a, b) == IF b = 0 THEN a ELSE GCD(b, a % b)

\* n/d in lowest terms with a positive denominator (d # 0).
Rat(n, d) ==
    LET s == IF d < 0 THEN -1 ELSE 1
        g == GCD(Abs(n), Abs(d))
    IN  IF n = 0 THEN <<0, 1>>
        ELSE <<s * ((Abs(n) \div g) * (IF n < 0 THEN -1 ELSE 1)), Abs(d) \div g>>

RInt(n) == <<n, 1>>
RAdd(a, b) ==
    LET g == GCD(a[2], b[2])
    IN  Rat(a[1] * (b[2] \div g) + b[1] * (a[2] \div g), (a[2] \div g) * b[2])
RNeg(a) == <<-a[1], a[2]>>
RSub(a, b) == RAdd(a, RNeg(b))
RMul(a, b) ==
    LET x == Rat(a[1], b[2])
        y == Rat(b[1], a[2])
    IN  <<x[1] * y[1], x[2] * y[2]>>
RDiv(a, b) == RMul(a, Rat(b[2], b[1]))
RLt(a, b) == a[1] * b[2] < b[1] * a[2]
RLe(a, b) == a[1] * b[2] <= b[1] * a[2]
RAbs(a) == <<Abs(a[1]), a[2]>>
RMin(a, b) == IF RLt(b, a) THEN b ELSE a      \* Python min(a, b)
RMax(a, b) == IF RLt(a, b) THEN b ELSE a      \* Python max(a, b)

----------------------------------------------------------------------------
(* LabelDetector: configuration (src/models/label_detector.py, __init__) *)

\* LabelDetector() with the default arguments.
DefaultConfig ==
    [min_aspect_ratio     |-> <<5, 2>>,
     max_aspect_ratio     |-> <<10, 1>>,
     min_width            |-> 100,
     min_height           |-> 20,
     max_width_ratio      |-> <<9, 10>>,
     bottom_region_ratio  |-> <<3, 5>>,
     confidence_threshold |-> <<1, 2>>]

\* The defaults with the two pixel sizes scaled down for a thumbnail image.
ThumbConfig ==
    [DefaultConfig EXCEPT !.min_width = 4, !.min_height = 2]

\* Every argument overridden.
NarrowConfig ==
    [min_aspect_ratio     |-> <<2, 1>>,
     max_aspect_ratio     |-> <<8, 1>>,
     min_width            |-> 4,
     min_height           |-> 2,
     max_width_ratio      |-> <<9, 20>>,
     bottom_region_ratio  |-> <<1, 2>>,
     confidence_threshold |-> <<3, 10>>]

Configs == {DefaultConfig, ThumbConfig, NarrowConfig}

----------------------------------------------------------------------------
(* Images.  A contour is what the extractor and the region statistics give *)
(* for it: its bounding rectangle (x, y, w, h), the mean grey level of the *)
(* region (np.mean(roi_gray), 0..255) and the number of Canny edge pixels  *)
(* in the region (np.sum(edges_roi > 0), 0..w*h).  cv2.boundingRect of a   *)
(* contour of a W x H image lies inside the image and has w, h >= 1.       *)

Contour(x, y, w, h, mean, edges) ==
    [x |-> x, y |-> y, w |-> w, h |-> h, mean |-> mean, edges |-> edges]

ThumbDims == <<40, 20>>
PhotoDims == <<800, 600>>

ThumbContours ==
    { Contour(10, 10, 10, 2, <<200, 1>>, 3),    \* ratio 5, bright, 15% edges
      Contour(4, 10, 10, 3, <<0, 1>>, 0),       \* ratio 10/3, dark, no edges
      Contour(20, 12, 20, 3, <<0, 1>>, 0),      \* ratio 20/3, dark, no edges
      Contour(10, 3, 10, 2, <<255, 1>>, 3),     \* in the top fifth of the image
      Contour(0, 4, 10, 3, <<401, 2>>, 1),      \* at the left edge, upper half
      Contour(20, 5, 20, 2, <<0, 1>>, 40) }     \* ratio 10, every pixel an edge

PhotoContours ==
    { Contour(250, 450, 300, 50, <<230, 1>>, 2250),   \* a printed shelf label
      Contour(100, 300, 100, 100, <<128, 1>>, 1500),  \* a square product face
      Contour(0, 500, 760, 100, <<90, 1>>, 7600) }    \* the shelf edge

\* The printed shelf label of PhotoContours under other lighting and print:
\* black to white, and from no edge pixel to every pixel an edge.
LabelRegions ==
    { Contour(250, 450, 300, 50, mean, edges) :
        mean \in {<<0, 1>>, <<100, 1>>, <<255, 1>>},
        edges \in {0, 1500, 4500, 15000} }

\* Regions whose center lies on a limit of the position bands: at 0.1 of the
\* width and 0.5 of the height, and at 0.9 of both.
BandLimitRegions ==
    { Contour(30, 290, 100, 20, <<180, 1>>, 300),
      Contour(670, 530, 100, 20, <<180, 1>>, 300) }

\* What the trained network returns for one box: corners in half pixels
\* (xyxy are floats), its confidence and its class.
NetBox(x1, y1, x2, y2, conf) ==
    [x1 |-> x1, y1 |-> y1, x2 |-> x2, y2 |-> y2, conf |-> conf, cls |-> "label"]

NetBoxes ==
    { NetBox(0, 0, 20, 8, <<9, 10>>),
      NetBox(21, 5, 61, 17, <<4, 5>>),
      NetBox(80, 0, 120, 8, <<9, 10>>),
      NetBox(40, 20, 61, 27, <<3, 5>>) }

Range(s) == {s[i] : i \in 1..Len(s)}

\* All sequences of distinct elements of S of length at most n.
RECURSIVE SeqsUpTo(_, _)
SeqsUpTo(S, n) ==
    IF n = 0 THEN {<<>>}
    ELSE LET shorter == SeqsUpTo(S, n - 1)
         IN  shorter \cup
             UNION { {Append(s, e) : e \in S \ Range(s)} :
                       s \in {t \in shorter : Len(t) = n - 1} }

Image(readable, dims, contours, boxes) ==
    [readable |-> readable, W |-> dims[1], H |-> dims[2],
     contours |-> contours, boxes |-> boxes]

NoImage == Image(FALSE, <<0, 0>>, <<>>, <<>>)

\* A file cv2.imread cannot decode.
UnreadableImages == {NoImage}

\* The paths under which an image is handed to a call.
PathsOf(img) == IF img.readable THEN {"shelf.jpg"} ELSE {"missing.jpg", "notes.txt"}

\* The decodable images handed to LabelDetector.detect_shelf_labels.
HeuristicImages ==
    { Image(TRUE, ThumbDims, cs, <<>>) :
        cs \in SeqsUpTo(ThumbContours, MaxContours) }
    \cup
    { Image(TRUE, PhotoDims, cs, <<>>) :
        cs \in SeqsUpTo(PhotoContours, MaxContours) }
    \cup
    { Image(TRUE, PhotoDims, <<c>>, <<>>) : c \in LabelRegions \cup BandLimitRegions }

\* The decodable images handed to YOLOLabelDetector.detect_labels: the
\* network reports only boxes at or above the conf argument.
YoloImages(conf) ==
    { Image(TRUE, PhotoDims, <<>>, bs) :
        bs \in SeqsUpTo({b \in NetBoxes : RLe(conf, b.conf)}, MaxContours) }

----------------------------------------------------------------------------
(* LabelDetector._is_valid_label *)

\* Mutant of is_valid_label: the position rule tests the computed
\* bottom_region_start instead of the fixed fifth of the height.
is_valid_label_bottom_region(cfg, x, y, w, h, aspect_ratio, img_width, img_height) ==
    IF w < cfg.min_width \/ h < cfg.min_height THEN FALSE
    ELSE IF RLt(aspect_ratio, cfg.min_aspect_ratio)
            \/ RLt(cfg.max_aspect_ratio, aspect_ratio) THEN FALSE
    ELSE IF RLt(RMul(RInt(img_width), cfg.max_width_ratio), RInt(w)) THEN FALSE
    ELSE IF RLt(RInt(y), RMul(RInt(img_height), RSub(RInt(1), cfg.bottom_region_ratio)))
         THEN FALSE
    ELSE TRUE

is_valid_label(cfg, x, y, w, h, aspect_ratio, img_width, img_height) ==
    IF w < cfg.min_width \/ h < cfg.min_height THEN FALSE
    ELSE IF RLt(aspect_ratio, cfg.min_aspect_ratio)
            \/ RLt(cfg.max_aspect_ratio, aspect_ratio) THEN FALSE
    ELSE IF RLt(RMul(RInt(img_width), cfg.max_width_ratio), RInt(w)) THEN FALSE
    ELSE IF RLt(RInt(y), RMul(RInt(img_height), <<1, 5>>)) THEN FALSE
    ELSE TRUE

----------------------------------------------------------------------------
(* LabelDetector._calculate_confidence *)

ideal_ratio == 5

\* Factor 1: 1.0 - min(abs(aspect_ratio - ideal_ratio) / ideal_ratio, 1.0)
ratio_score(aspect_ratio) ==
    RSub(RInt(1),
         RMin(RDiv(RAbs(RSub(aspect_ratio, RInt(ideal_ratio))), RInt(ideal_ratio)),
              RInt(1)))

\* Factor 2: min(mean_brightness / 200.0, 1.0)
brightness_score(mean_brightness) ==
    RMin(RDiv(mean_brightness, RInt(200)), RInt(1))

\* Mutant of edge_score: the score is capped at 1 but not floored at 0.
edge_score_unclamped(edges, w, h) ==
    RMin(RSub(RInt(1), RDiv(RAbs(RSub(Rat(edges, w * h), <<3, 20>>)), <<3, 20>>)), RInt(1))

\* Factor 3: edge_density = edges / (w*h);
\*           max(0, min(1.0 - abs(edge_density - 0.15) / 0.15, 1.0))
edge_score(edges, w, h) ==
    RMax(RInt(0),
         RMin(RSub(RInt(1), RDiv(RAbs(RSub(Rat(edges, w * h), <<3, 20>>)), <<3, 20>>)),
              RInt(1)))

\* Factor 4: 1.0 if 0.5 <= (y + h // 2) / img_height <= 0.9 else 0.5
position_score(y, h, img_height) ==
    LET center_y == y + (h \div 2)
        vertical_position == Rat(center_y, img_height)
    IN  IF RLe(<<1, 2>>, vertical_position) /\ RLe(vertical_position, <<9, 10>>)
        THEN RInt(1) ELSE <<1, 2>>

\* Mutant of h_position_score: the limits of the band are excluded.
h_position_score_open_band(x, w, img_width) ==
    LET center_x == x + (w \div 2)
        horizontal_position == Rat(center_x, img_width)
    IN  IF RLt(<<1, 10>>, horizontal_position) /\ RLt(horizontal_position, <<9, 10>>)
        THEN RInt(1) ELSE <<1, 2>>

\* Factor 5: 1.0 if 0.1 <= (x + w // 2) / img_width <= 0.9 else 0.5
h_position_score(x, w, img_width) ==
    LET center_x == x + (w \div 2)
        horizontal_position == Rat(center_x, img_width)
    IN  IF RLe(<<1, 10>>, horizontal_position) /\ RLe(horizontal_position, <<9, 10>>)
        THEN RInt(1) ELSE <<1, 2>>

\* confidence = 0.0; confidence += term, once per factor
RECURSIVE RSum(_)
RSum(terms) ==
    IF terms = <<>> THEN RInt(0)
    ELSE RAdd(RSum(SubSeq(terms, 1, Len(terms) - 1)), terms[Len(terms)])

\* Mutant of calculate_confidence: the weights of the ratio and of the
\* brightness factors exchanged.
calculate_confidence_weights_exchanged(c, aspect_ratio, img_width, img_height) ==
    RMin(RSum(<<RMul(ratio_score(aspect_ratio), <<1, 5>>),
                RMul(brightness_score(c.mean), <<3, 10>>),
                RMul(edge_score(c.edges, c.w, c.h), <<1, 5>>),
                RMul(position_score(c.y, c.h, img_height), <<3, 20>>),
                RMul(h_position_score(c.x, c.w, img_width), <<3, 20>>)>>),
         RInt(1))

\* c carries the region statistics the code reads from image and gray.
calculate_confidence(c, aspect_ratio, img_width, img_height) ==
    RMin(RSum(<<RMul(ratio_score(aspect_ratio), <<3, 10>>),
                RMul(brightness_score(c.mean), <<1, 5>>),
                RMul(edge_score(c.edges, c.w, c.h), <<1, 5>>),
                RMul(position_score(c.y, c.h, img_height), <<3, 20>>),
                RMul(h_position_score(c.x, c.w, img_width), <<3, 20>>)>>),
         RInt(1))

----------------------------------------------------------------------------
(* LabelDetector.detect_shelf_labels *)

\* Mutant of sort_by_confidence: the sort without reverse=True.
InsertAscending(sorted, e) ==
    LET k == Cardinality({i \in 1..Len(sorted) : RLe(sorted[i].confidence, e.confidence)})
    IN  SubSeq(sorted, 1, k) \o <<e>> \o SubSeq(sorted, k + 1, Len(sorted))

RECURSIVE sort_ascending(_)
sort_ascending(s) ==
    IF s = <<>> THEN <<>>
    ELSE InsertAscending(sort_ascending(SubSeq(s, 1, Len(s) - 1)), s[Len(s)])

\* Mutant of Insert: a descending sort that is not stable; e goes in front of
\* the elements whose confidence equals its own.
InsertBeforeTies(sorted, e) ==
    LET k == Cardinality({i \in 1..Len(sorted) : RLt(e.confidence, sorted[i].confidence)})
    IN  SubSeq(sorted, 1, k) \o <<e>> \o SubSeq(sorted, k + 1, Len(sorted))

\* label_candidates.sort(key=confidence, reverse=True): a stable sort, so
\* e goes behind every element whose confidence is at least its own.
Insert(sorted, e) ==
    LET k == Cardinality({i \in 1..Len(sorted) : RLe(e.confidence, sorted[i].confidence)})
    IN  SubSeq(sorted, 1, k) \o <<e>> \o SubSeq(sorted, k + 1, Len(sorted))

RECURSIVE sort_by_confidence(_)
sort_by_confidence(s) ==
    IF s = <<>> THEN <<>>
    ELSE Insert(sort_by_confidence(SubSeq(s, 1, Len(s) - 1)), s[Len(s)])

\* Mutant of Candidate: the box stored as corners (x1, y1, x2, y2).
CandidateCorners(c, confidence, aspect_ratio) ==
    [bbox         |-> <<c.x, c.y, c.x + c.w, c.y + c.h>>,
     confidence   |-> confidence,
     area         |-> c.w * c.h,
     center       |-> <<c.x + (c.w \div 2), c.y + (c.h \div 2)>>,
     aspect_ratio |-> aspect_ratio]

\* The dict appended for a contour that passes the filter and the threshold.
Candidate(c, confidence, aspect_ratio) ==
    [bbox         |-> <<c.x, c.y, c.w, c.h>>,
     confidence   |-> confidence,
     area         |-> c.w * c.h,
     center       |-> <<c.x + (c.w \div 2), c.y + (c.h \div 2)>>,
     aspect_ratio |-> aspect_ratio]

\* Mutant of below_threshold: a confidence equal to the threshold is dropped.
below_or_at_threshold(cfg, confidence) == RLe(confidence, cfg.confidence_threshold)

\* if confidence < self.confidence_threshold: continue
below_threshold(cfg, confidence) == RLt(confidence, cfg.confidence_threshold)

\* Mutant of aspect_ratio_of: the division is guarded by w / max(h, 1).
aspect_ratio_of_unit_height(w, h) == IF h > 0 THEN Rat(w, h) ELSE Rat(w, 1)

\* aspect_ratio = w / h if h > 0 else 0
aspect_ratio_of(w, h) == IF h > 0 THEN Rat(w, h) ELSE RInt(0)

\* The loop body up to the scoring, for a raw box that need not come from
\* cv2.boundingRect: its aspect ratio, whether it passes the filter and so
\* reaches _calculate_confidence, and whether the edge density computed
\* there divides by w * h = 0.
raw_box_step(cfg, c, width, height) ==
    LET aspect_ratio == aspect_ratio_of(c.w, c.h)
        valid == is_valid_label(cfg, c.x, c.y, c.w, c.h, aspect_ratio, width, height)
    IN  [aspect_ratio |-> aspect_ratio, valid |-> valid, scored |-> valid,
         zero_division |-> valid /\ c.w * c.h = 0]

\* Mutant of contour_step: the score is computed for every box, and the
\* filter is asked afterwards.
contour_step_score_first(cfg, c, width, height) ==
    LET aspect_ratio == IF c.h > 0 THEN Rat(c.w, c.h) ELSE RInt(0)
        confidence == calculate_confidence(c, aspect_ratio, width, height)
        valid == is_valid_label(cfg, c.x, c.y, c.w, c.h, aspect_ratio, width, height)
        kept == valid /\ ~below_threshold(cfg, confidence)
    IN  [valid |-> valid, scored |-> TRUE, confidence |-> confidence, kept |-> kept,
         candidate |-> Candidate(c, confidence, aspect_ratio)]

\* One iteration of the loop over the contours: what was decided for c.
\* scored says whether _calculate_confidence was called.
contour_step(cfg, c, width, height) ==
    LET aspect_ratio == aspect_ratio_of(c.w, c.h)
        valid == is_valid_label(cfg, c.x, c.y, c.w, c.h, aspect_ratio, width, height)
        confidence == IF valid THEN calculate_confidence(c, aspect_ratio, width, height)
                      ELSE RInt(0)
        kept == valid /\ ~below_threshold(cfg, confidence)
    IN  [valid |-> valid, scored |-> valid, confidence |-> confidence, kept |-> kept,
         candidate |-> Candidate(c, confidence, aspect_ratio)]

\* Mutant of KeptCandidates: every scored box is appended, whatever its score.
RECURSIVE KeptCandidatesScored(_)
KeptCandidatesScored(steps) ==
    IF steps = <<>> THEN <<>>
    ELSE LET rest == KeptCandidatesScored(SubSeq(steps, 1, Len(steps) - 1))
             last == steps[Len(steps)]
         IN  IF last.scored THEN Append(rest, last.candidate) ELSE rest

\* The candidates appended to label_candidates, in contour order.
RECURSIVE KeptCandidates(_)
KeptCandidates(steps) ==
    IF steps = <<>> THEN <<>>
    ELSE LET rest == KeptCandidates(SubSeq(steps, 1, Len(steps) - 1))
             last == steps[Len(steps)]
         IN  IF last.kept THEN Append(rest, last.candidate) ELSE rest

\* _save_debug_image is called for the edge map and the dilated map.
DebugFiles == {"01_edges.jpg", "02_dilated.jpg"}

\* What the loop decided for each contour, in order.
DecisionLog(steps) ==
    [i \in 1..Len(steps) |->
       [valid |-> steps[i].valid, scored |-> steps[i].scored,
        confidence |-> steps[i].confidence, kept |-> steps[i].kept]]

\* Mutant of detect_shelf_labels: the result of cv2.imread is not checked, and
\* cv2.cvtColor raises on None.
detect_shelf_labels_unchecked_load(cfg, path, img, dbg) ==
    IF ~img.readable
    THEN [exc |-> "cv2.error", msg |-> <<"!_src.empty() in function 'cvtColor'">>,
          labels |-> <<>>, log |-> <<>>, files |-> {}]
    ELSE LET steps == [i \in 1..Len(img.contours) |->
                          contour_step(cfg, img.contours[i], img.W, img.H)]
         IN  [exc |-> "none", msg |-> <<>>,
              labels |-> sort_by_confidence(KeptCandidates(steps)),
              log |-> DecisionLog(steps),
              files |-> IF dbg THEN DebugFiles ELSE {}]

\* Mutant of detect_shelf_labels: label_candidates is a list that lives on
\* between calls (the caller still holds it as `labels`) instead of a fresh
\* one.
detect_shelf_labels_shared_list(cfg, path, img, dbg) ==
    IF ~img.readable
    THEN [exc |-> "ValueError", msg |-> <<"Could not read image: ", path>>,
          labels |-> <<>>, log |-> <<>>, files |-> {}]
    ELSE LET steps == [i \in 1..Len(img.contours) |->
                          contour_step(cfg, img.contours[i], img.W, img.H)]
         IN  [exc |-> "none", msg |-> <<>>,
              labels |-> sort_by_confidence(labels \o KeptCandidates(steps)),
              log |-> DecisionLog(steps),
              files |-> IF dbg THEN DebugFiles ELSE {}]

\* Mutant of detect_shelf_labels: with debug the list is returned as
\* collected, before the sort.
detect_shelf_labels_debug_unsorted(cfg, path, img, dbg) ==
    IF ~img.readable
    THEN [exc |-> "ValueError", msg |-> <<"Could not read image: ", path>>,
          labels |-> <<>>, log |-> <<>>, files |-> {}]
    ELSE LET steps == [i \in 1..Len(img.contours) |->
                          contour_step(cfg, img.contours[i], img.W, img.H)]
         IN  [exc |-> "none", msg |-> <<>>,
              labels |-> IF dbg THEN KeptCandidates(steps)
                         ELSE sort_by_confidence(KeptCandidates(steps)),
              log |-> DecisionLog(steps),
              files |-> IF dbg THEN DebugFiles ELSE {}]

\* The whole call: the exception raised ("none" if none) and its message,
\* the list returned, the per-contour decisions and the files written.
detect_shelf_labels(cfg, path, img, dbg) ==
    IF ~img.readable
    THEN [exc |-> "ValueError", msg |-> <<"Could not read image: ", path>>,
          labels |-> <<>>, log |-> <<>>, files |-> {}]
    ELSE LET steps == [i \in 1..Len(img.contours) |->
                          contour_step(cfg, img.contours[i], img.W, img.H)]
         IN  [exc |-> "none", msg |-> <<>>,
              labels |-> sort_by_confidence(KeptCandidates(steps)),
              log |-> DecisionLog(steps),
              files |-> IF dbg THEN DebugFiles ELSE {}]

----------------------------------------------------------------------------
(* get_best_label of the two detectors.  The result is [exc, ref]: ref is  *)
(* 0 for None and otherwise the position in the list of the dict returned. *)

Returns(ref) == [exc |-> "none", ref |-> ref]
Raises(e) == [exc |-> e, ref |-> 0]

\* Mutant of First: labels[-1].
LastOf(s) == IF Len(s) = 0 THEN Raises("IndexError") ELSE Returns(Len(s))

\* labels[0]
First(s) == IF Len(s) = 0 THEN Raises("IndexError") ELSE Returns(1)

\* Mutant of PyMax: a max that keeps the last of the elements with the
\* largest key (the running best replaced on >=).
PyMaxLast(keys, n) ==
    CHOOSE i \in 1..n : \A j \in 1..n : keys[j] < keys[i] \/ (keys[j] = keys[i] /\ j <= i)

\* Python's max(iterable, key): the running best is replaced only by an
\* element whose key is strictly greater.  keys[i] is the key of element i;
\* the result is the position of the element returned, for the first n.
RECURSIVE PyMax(_, _)
PyMax(keys, n) ==
    IF n = 1 THEN 1
    ELSE LET m == PyMax(keys, n - 1)
         IN  IF keys[n] > keys[m] THEN n ELSE m

\* Python's min(iterable, key): replaced only by a strictly smaller key.
\* The keys are rationals.
RECURSIVE PyMin(_, _)
PyMin(keys, n) ==
    IF n = 1 THEN 1
    ELSE LET m == PyMin(keys, n - 1)
         IN  IF RLt(keys[n], keys[m]) THEN n ELSE m

\* max(labels, key=lambda x: x['area'])
MaxByArea(s) ==
    IF Len(s) = 0 THEN Raises("ValueError")
    ELSE Returns(PyMax([i \in 1..Len(s) |-> s[i].area], Len(s)))

\* img_center_x = labels[0]['center'][0]
\* min(labels, key=lambda x: abs(x['center'][0] - img_center_x))
MinByDistanceToFirstX(s) ==
    IF Len(s) = 0 THEN Raises("IndexError")
    ELSE Returns(PyMin([i \in 1..Len(s) |-> RInt(Abs(s[i].center[1] - s[1].center[1]))],
                       Len(s)))

RECURSIVE SumCenter(_, _)
SumCenter(s, k) == IF s = <<>> THEN 0 ELSE s[1].center[k] + SumCenter(Tail(s), k)

\* (x['center'][0] - avg_x)**2 + (x['center'][1] - avg_y)**2
SquaredDistance(center, avg_x, avg_y) ==
    RAdd(RMul(RSub(RInt(center[1]), avg_x), RSub(RInt(center[1]), avg_x)),
         RMul(RSub(RInt(center[2]), avg_y), RSub(RInt(center[2]), avg_y)))

\* avg_x, avg_y = the mean of the centers; min(detections, key=squared distance)
MinByDistanceToMean(s) ==
    IF Len(s) = 0 THEN Raises("ZeroDivisionError")
    ELSE Returns(PyMin([i \in 1..Len(s) |->
                          SquaredDistance(s[i].center,
                                          Rat(SumCenter(s, 1), Len(s)),
                                          Rat(SumCenter(s, 2), Len(s)))],
                       Len(s)))

\* Mutant of get_best_label: the empty-list check is missing.
get_best_label_unguarded(lst, strat) ==
    IF strat = "largest" THEN MaxByArea(lst)
    ELSE IF strat = "most_confident" THEN First(lst)
    ELSE IF strat = "center" THEN MinByDistanceToFirstX(lst)
    ELSE First(lst)

\* LabelDetector.get_best_label
get_best_label(lst, strat) ==
    IF Len(lst) = 0 THEN Returns(0)
    ELSE IF strat = "largest" THEN MaxByArea(lst)
    ELSE IF strat = "most_confident" THEN First(lst)
    ELSE IF strat = "center" THEN MinByDistanceToFirstX(lst)
    ELSE First(lst)

\* Mutant of labels_after_get_best_label: the selection sorts the caller's
\* list in place (labels.sort(key=confidence)) before it picks from it.
labels_sorted_in_place(lst, strat) == sort_ascending(lst)

\* The caller's list after LabelDetector.get_best_label: the method only
\* reads it (a truth test, max, min and indexing), so it is the list given.
labels_after_get_best_label(lst, strat) == lst

\* Mutant of yolo_get_best_label: an unknown strategy is an error.
yolo_get_best_label_strict(detections, strat) ==
    IF Len(detections) = 0 THEN Returns(0)
    ELSE IF strat = "most_confident" THEN First(detections)
    ELSE IF strat = "largest" THEN MaxByArea(detections)
    ELSE IF strat = "center" THEN MinByDistanceToMean(detections)
    ELSE Raises("ValueError")

\* YOLOLabelDetector.get_best_label
yolo_get_best_label(detections, strat) ==
    IF Len(detections) = 0 THEN Returns(0)
    ELSE IF strat = "most_confident" THEN First(detections)
    ELSE IF strat = "largest" THEN MaxByArea(detections)
    ELSE IF strat = "center" THEN MinByDistanceToMean(detections)
    ELSE First(detections)

\* The three documented strategies and two strings that are none of them.
Strategies == {"most_confident", "largest", "center", "smallest", ""}

----------------------------------------------------------------------------
(* YOLOLabelDetector.detect_labels *)

\* is_ready(): the model is set exactly when model_loaded is.
is_ready(y) == y.model_loaded

\* The dict built from one box of the network: int() truncates the corners,
\* the center and the area.
Detection(b) ==
    [bbox       |-> <<b.x1 \div 2, b.y1 \div 2, b.x2 \div 2, b.y2 \div 2>>,
     confidence |-> b.conf,
     class_name |-> b.cls,
     center     |-> <<(b.x1 + b.x2) \div 4, (b.y1 + b.y2) \div 4>>,
     area       |-> ((b.x2 - b.x1) * (b.y2 - b.y1)) \div 4]

yolo_detect_labels(y, path, img) ==
    IF ~is_ready(y)
    THEN [exc |-> "RuntimeError",
          msg |-> <<"YOLO model is not loaded. Cannot perform detection.">>,
          labels |-> <<>>]
    ELSE IF ~img.readable
    THEN [exc |-> "ValueError", msg |-> <<"Could not read image: ", path>>,
          labels |-> <<>>]
    ELSE [exc |-> "none", msg |-> <<>>,
          labels |-> sort_by_confidence([i \in 1..Len(img.boxes) |-> Detection(img.boxes[i])])]

\* _save_visualization writes <stem>_detected.jpg
VisualizationFiles == {"_detected.jpg"}

----------------------------------------------------------------------------
(* crop_to_label of the two detectors.  The result is [exc, rect, saved]:  *)
(* rect = <<left, top, right, bottom>> is the part of the image the slice  *)
(* image[top:bottom, left:right] extracts, saved tells whether the crop    *)
(* was written to output_path.                                             *)

Min(a, b) == IF b < a THEN b ELSE a      \* Python min(a, b) of ints
Max(a, b) == IF b > a THEN b ELSE a      \* Python max(a, b) of ints

\* The padding fraction: the literal 0.05 of LabelDetector.crop_to_label and
\* the default of YOLOLabelDetector.crop_to_label's padding argument.
label_padding == <<1, 20>>

\* Mutant of padding_of: the padding taken twice as large.
padding_of_doubled(size, padding) == (2 * size * padding[1]) \div padding[2]

\* int(size * padding), size >= 0: int() truncates.
padding_of(size, padding) == (size * padding[1]) \div padding[2]

\* Mutant of padded_extent: the extent of the box itself, from the moved
\* origin.
padded_extent_unpadded(limit, start, size, padding) == Min(limit - start, size)

\* min(image.shape[k] - start, size + 2 * padding): the extent of the crop
\* from its origin `start`, which was clamped before.
padded_extent(limit, start, size, padding) ==
    Min(limit - start, size + 2 * padding)

\* The indices a[start:stop] selects from an axis of length n: a negative
\* index counts from the end, both ends are clamped to the axis.
SliceIndex(i, n) == IF i < 0 THEN Max(0, i + n) ELSE Min(i, n)
Slice(start, stop, n) ==
    <<SliceIndex(start, n), Max(SliceIndex(start, n), SliceIndex(stop, n))>>

CropResult(img, cols, rows, output_path) ==
    IF output_path /\ (cols[1] = cols[2] \/ rows[1] = rows[2])
    THEN [exc |-> "cv2.error", msg |-> <<"!_img.empty() in function 'imwrite'">>,
          rect |-> <<0, 0, 0, 0>>, saved |-> FALSE]
    ELSE [exc |-> "none", msg |-> <<>>, rect |-> <<cols[1], rows[1], cols[2], rows[2]>>,
          saved |-> output_path]

\* LabelDetector.crop_to_label(image_path, bbox, output_path), bbox = (x, y, w, h)
crop_to_label(img, bbox, output_path) ==
    LET padding_w == padding_of(bbox[3], label_padding)
        padding_h == padding_of(bbox[4], label_padding)
        x == Max(0, bbox[1] - padding_w)
        y == Max(0, bbox[2] - padding_h)
    IN  IF ~img.readable
        THEN [exc |-> "AttributeError",
              msg |-> <<"'NoneType' object has no attribute 'shape'">>,
              rect |-> <<0, 0, 0, 0>>, saved |-> FALSE]
        ELSE LET w == padded_extent(img.W, x, bbox[3], padding_w)
                 h == padded_extent(img.H, y, bbox[4], padding_h)
             IN  CropResult(img, Slice(x, x + w, img.W), Slice(y, y + h, img.H),
                            output_path)

\* YOLOLabelDetector.crop_to_label(image_path, bbox, output_path, padding),
\* bbox = (x1, y1, x2, y2)
yolo_crop_to_label(img, bbox, output_path, padding) ==
    LET pad_w == padding_of(bbox[3] - bbox[1], padding)
        pad_h == padding_of(bbox[4] - bbox[2], padding)
        x1 == Max(0, bbox[1] - pad_w)
        y1 == Max(0, bbox[2] - pad_h)
    IN  IF ~img.readable
        THEN [exc |-> "AttributeError",
              msg |-> <<"'NoneType' object has no attribute 'shape'">>,
              rect |-> <<0, 0, 0, 0>>, saved |-> FALSE]
        ELSE LET x2 == Min(img.W, bbox[3] + pad_w)
                 y2 == Min(img.H, bbox[4] + pad_h)
             IN  CropResult(img, Slice(x1, x2, img.W), Slice(y1, y2, img.H),
                            output_path)

\* Boxes a caller hands to LabelDetector.crop_to_label directly, with the
\* image they lie in: <<dims, (x, y, w, h)>>.
SquareDims == <<200, 200>>

CropCalls ==
    { <<SquareDims, <<10, 10, 100, 20>>>>,      \* the padded box fits
      <<PhotoDims, <<250, 450, 300, 50>>>>,     \* the padded box fits
      <<PhotoDims, <<0, 450, 300, 50>>>>,       \* at the left edge
      <<PhotoDims, <<100, 0, 100, 40>>>>,       \* at the top edge
      <<PhotoDims, <<500, 560, 300, 40>>>>,     \* in the bottom right corner
      <<ThumbDims, <<0, 0, 40, 20>>>>,          \* the whole image
      <<ThumbDims, <<4, 10, 10, 3>>>> }         \* too small to be padded

\* The same boxes as corners (x1, y1, x2, y2), for the YOLO detector.
Corners(bbox) == <<bbox[1], bbox[2], bbox[1] + bbox[3], bbox[2] + bbox[4]>>

\* The padding arguments callers pass to the YOLO detector's crop.
Paddings == {label_padding, <<1, 10>>}

----------------------------------------------------------------------------
(* What the state holds of a selection and of a crop *)

NoBest == [exc |-> "none", ref |-> 0]

\* No crop_to_label call has been made.
NoCrop ==
    [by |-> "none", bbox |-> <<0, 0, 0, 0>>, padding |-> label_padding,
     rect |-> <<0, 0, 0, 0>>, saved |-> FALSE]

\* What a crop_to_label call leaves: who ran it, its arguments, its result.
Cropped(by, bbox, padding, r) ==
    [by |-> by, bbox |-> bbox, padding |-> padding, rect |-> r.rect, saved |-> r.saved]

----------------------------------------------------------------------------
(* extract_text_with_label_detection (src/models/ocr_with_label_detection.py): *)
(* detection with a default LabelDetector, selection, crop to a temporary  *)
(* file, OCR of the crop or, with no candidate, of the full image.  What   *)
(* the Vision API answers and whether tempfile.mkstemp can create a file   *)
(* in the image's directory are inputs.                                    *)

\* Python's None, for the bbox and confidence fields of the result.
None == <<>>

\* The dict both functions start from.
ResultDict(use_detection) ==
    [success |-> FALSE, text |-> "", error |-> <<>>, detection_used |-> use_detection,
     label_found |-> FALSE, bbox |-> None, confidence |-> None]

\* What requests.post gives: an HTTP status and the parsed body, or an
\* exception when the service cannot be reached.
Responses ==
    { [raised |-> FALSE, status |-> 200, body |-> "text", text |-> "MILK 2.49"],
      [raised |-> FALSE, status |-> 200, body |-> "no_text", text |-> ""],
      [raised |-> FALSE, status |-> 200, body |-> "error", text |-> "Quota exceeded"],
      [raised |-> FALSE, status |-> 403, body |-> "none", text |-> ""],
      [raised |-> TRUE, status |-> 0, body |-> "none", text |-> "Connection refused"] }

\* _extract_text_from_image(image_path, api_key): it catches every exception
\* and returns a dict.
ocr_extract_text_from_image(path, exists, response) ==
    LET result == ResultDict(FALSE)
    IN  IF ~exists
        THEN [result EXCEPT !.error = <<"Image file not found: ", path>>]
        ELSE IF response.raised
        THEN [result EXCEPT !.error = <<"OCR error: ", response.text>>]
        ELSE IF response.status # 200
        THEN [result EXCEPT !.error =
                 <<"API request failed with status code ", response.status>>]
        ELSE IF response.body = "error"
        THEN [result EXCEPT !.error = <<response.text>>]
        ELSE IF response.body = "text"
        THEN [result EXCEPT !.success = TRUE, !.text = response.text]
        ELSE IF response.body = "no_text"
        THEN [result EXCEPT !.success = TRUE, !.text = "",
                            !.error = <<"No text detected in image">>]
        ELSE [result EXCEPT !.error = <<"Invalid API response">>]

\* result['success'], ['text'], ['error'] = ocr_result[...]
Merge(result, ocr_result) ==
    [result EXCEPT !.success = ocr_result.success, !.text = ocr_result.text,
                   !.error = ocr_result.error]

\* Mutant of DetectionError: the message of the exception is stored as it
\* is, and success is left as it was.
DetectionErrorUnmarked(result, msg) == [result EXCEPT !.error = msg]

\* except Exception as e: the result so far, marked as failed.
DetectionError(result, msg) ==
    [result EXCEPT !.success = FALSE, !.error = <<"Label detection error: ">> \o msg]

\* One OCR call: the file it was given and the part of the image in it.
OcrCall(file, rect) == [file |-> file, rect |-> rect]

TempCrop == "tmp.jpg"              \* the file mkstemp creates
SavedCrop == "_label_crop.jpg"     \* <stem>_label_crop.jpg

\* Mutant of ocr_of_crop: the crop is written, but the OCR is given the
\* original image.
ocr_of_full_image(path, img, c, response) ==
    [calls |-> <<OcrCall(path, <<0, 0, img.W, img.H>>)>>,
     ocr_result |-> ocr_extract_text_from_image(path, TRUE, response)]

\* Step 4 for a found label: _extract_text_from_image(temp_crop_path, api_key)
ocr_of_crop(path, img, c, response) ==
    [calls |-> <<OcrCall(TempCrop, c.rect)>>,
     ocr_result |-> ocr_extract_text_from_image(TempCrop, TRUE, response)]

\* temp_crop_path = None, before mkstemp has returned.
NoPath == ""

\* Mutant of remove_temp_crop: no cleanup.
temp_crop_left(files, temp_crop_path) == files

\* finally: if temp_crop_path and os.path.exists(temp_crop_path):
\*              os.remove(temp_crop_path)
remove_temp_crop(files, temp_crop_path) ==
    IF temp_crop_path # NoPath /\ temp_crop_path \in files
    THEN files \ {temp_crop_path}
    ELSE files

\* What the crop fields hold when crop_to_label was not run.
NotCropped == [exc |-> "none", msg |-> <<>>, rect |-> <<0, 0, 0, 0>>, saved |-> FALSE]

\* The branch for a non-empty list: selection, temporary file, crop, OCR,
\* cleanup.  `b` is what get_best_label returned for the list.  The
\* temporary file is removed on every way out; the saved crop stays.
\* `temp` is the path mkstemp gave, `files` what is on disk at the end.
label_branch(path, img, lst, b, save_cropped, mkstemp_ok, response) ==
    LET found == [ResultDict(TRUE) EXCEPT !.label_found = TRUE]
    IN  IF b.exc # "none"
        THEN [result |-> DetectionError(ResultDict(TRUE), <<b.exc>>),
              calls |-> <<>>, crop |-> NotCropped, temp |-> NoPath, files |-> {}]
        ELSE IF b.ref = 0
        THEN [result |-> DetectionError(found, <<"'NoneType' object is not subscriptable">>),
              calls |-> <<>>, crop |-> NotCropped, temp |-> NoPath, files |-> {}]
        ELSE LET selected == [found EXCEPT !.bbox = lst[b.ref].bbox,
                                           !.confidence = lst[b.ref].confidence]
                 c == crop_to_label(img, lst[b.ref].bbox, TRUE)
             IN  IF ~mkstemp_ok
                 THEN [result |-> DetectionError(selected, <<"[Errno 13] Permission denied">>),
                       calls |-> <<>>, crop |-> NotCropped, temp |-> NoPath,
                       files |-> remove_temp_crop({}, NoPath)]
                 ELSE IF c.exc # "none"
                 THEN [result |-> DetectionError(selected, c.msg),
                       calls |-> <<>>, crop |-> c, temp |-> TempCrop,
                       files |-> remove_temp_crop({TempCrop}, TempCrop)]
                 ELSE LET o == ocr_of_crop(path, img, c, response)
                      IN  [result |-> Merge(selected, o.ocr_result),
                           calls |-> o.calls, crop |-> c, temp |-> TempCrop,
                           files |-> remove_temp_crop(
                                       {TempCrop} \cup (IF save_cropped THEN {SavedCrop} ELSE {}),
                                       TempCrop)]

\* os.path: the file at the path exists (it may still not be an image).
Exists(path) == path # "missing.jpg"

\* What extract_text_with_label_detection leaves when detection did not run
\* or found nothing.
Undetected == [exc |-> "none", msg |-> <<>>, labels |-> <<>>, log |-> <<>>, files |-> {}]

\* The whole call: the dict returned, the OCR calls made, the crop, the
\* files left behind, and what detection and selection gave.
extract_text_with_label_detection(path, img, use_detection, strat, save_cropped, dbg, mkstemp_ok, response) ==
    LET d == detect_shelf_labels(DefaultConfig, path, img, dbg)
        full == OcrCall(path, <<0, 0, img.W, img.H>>)
    IN  IF ~use_detection
        THEN [d |-> Undetected, b |-> NoBest, crop |-> NotCropped, files |-> {},
              temp |-> NoPath,
              result |-> ocr_extract_text_from_image(path, Exists(path), response),
              calls |-> <<full>>]
        ELSE IF d.exc # "none"
        THEN [d |-> d, b |-> NoBest, crop |-> NotCropped, files |-> {},
              temp |-> NoPath,
              result |-> DetectionError(ResultDict(TRUE), d.msg), calls |-> <<>>]
        ELSE IF d.labels # <<>>
        THEN LET b == get_best_label(d.labels, strat)
                 r == label_branch(path, img, d.labels, b, save_cropped,
                                   mkstemp_ok, response)
             IN  [d |-> d, b |-> b, crop |-> r.crop, files |-> r.files,
                  temp |-> r.temp, result |-> r.result, calls |-> r.calls]
        ELSE [d |-> d, b |-> NoBest, crop |-> NotCropped, files |-> {},
              temp |-> NoPath,
              result |-> Merge(ResultDict(TRUE),
                               ocr_extract_text_from_image(path, Exists(path), response)),
              calls |-> <<full>>]

\* No call of a text extraction function has been made.
NoOcr ==
    [by |-> "none", use_detection |-> FALSE, save_cropped |-> FALSE,
     mkstemp_ok |-> FALSE, model_loaded |-> FALSE, detect_called |-> FALSE,
     response |-> CHOOSE r \in Responses : r.body = "text",
     result |-> ResultDict(FALSE), calls |-> <<>>, temp |-> NoPath, files |-> {}]

\* The images handed to extract_text_with_label_detection.
PipelineImages ==
    { Image(TRUE, PhotoDims, cs, <<>>) : cs \in SeqsUpTo(PhotoContours, MaxContours) }
    \cup UnreadableImages

----------------------------------------------------------------------------
(* extract_text_with_yolo (src/models/ocr_with_yolo.py): the same pipeline  *)
(* with a YOLOLabelDetector built for the call.  Whether the weights file  *)
(* exists and loads (model_loaded) is an input.                            *)

\* A dict of this module: those of the heuristic pipeline and num_detections.
WithNumDetections(r, n) ==
    [k \in DOMAIN r \cup {"num_detections"} |->
        IF k = "num_detections" THEN n ELSE r[k]]

YoloResultDict(use_detection) == WithNumDetections(ResultDict(use_detection), 0)

\* _extract_text_from_image of ocr_with_yolo.py: the same requests and the
\* same answers as in ocr_with_label_detection.py.
yolo_ocr_extract_text_from_image(path, exists, response) ==
    WithNumDetections(ocr_extract_text_from_image(path, exists, response), 0)

\* except Exception as e: the result so far, marked as failed.
YoloDetectionError(result, msg) ==
    [result EXCEPT !.success = FALSE, !.error = <<"YOLO detection error: ">> \o msg]

YoloSavedCrop == "_yolo_crop.jpg"  \* <stem>_yolo_crop.jpg

\* The detector the call constructs.
YOLOLabelDetector(model_loaded, confidence_threshold) ==
    [confidence_threshold |-> confidence_threshold, model_loaded |-> model_loaded]

\* Mutant of not_ready_fallback: the prepared result, with its error and
\* detection_used = False, is returned and no OCR is run.
not_ready_reported(path, img, response) ==
    [result |-> [YoloResultDict(FALSE) EXCEPT !.error =
                   <<"YOLO model not loaded. Train a model first or disable detection.">>],
     calls |-> <<>>]

\* if not detector.is_ready(): the error and detection_used written to
\* result are dropped; what _extract_text_from_image returns is returned.
not_ready_fallback(path, img, response) ==
    [result |-> yolo_ocr_extract_text_from_image(path, Exists(path), response),
     calls |-> <<OcrCall(path, <<0, 0, img.W, img.H>>)>>]

\* The branch for a non-empty list of detections.
yolo_label_branch(path, img, lst, b, save_cropped, mkstemp_ok, response) ==
    LET counted == [YoloResultDict(TRUE) EXCEPT !.num_detections = Len(lst)]
        selected == [counted EXCEPT !.label_found = TRUE,
                                    !.bbox = lst[b.ref].bbox,
                                    !.confidence = lst[b.ref].confidence]
        c == yolo_crop_to_label(img, lst[b.ref].bbox, TRUE, label_padding)
    IN  IF ~mkstemp_ok
        THEN [result |-> YoloDetectionError(selected, <<"[Errno 13] Permission denied">>),
              calls |-> <<>>, crop |-> NotCropped, temp |-> NoPath,
              files |-> remove_temp_crop({}, NoPath)]
        ELSE IF c.exc # "none"
        THEN [result |-> YoloDetectionError(selected, c.msg),
              calls |-> <<>>, crop |-> c, temp |-> TempCrop,
              files |-> remove_temp_crop({TempCrop}, TempCrop)]
        ELSE [result |-> Merge(selected,
                               yolo_ocr_extract_text_from_image(TempCrop, TRUE, response)),
              calls |-> <<OcrCall(TempCrop, c.rect)>>, crop |-> c, temp |-> TempCrop,
              files |-> remove_temp_crop(
                          {TempCrop} \cup (IF save_cropped THEN {YoloSavedCrop} ELSE {}),
                          TempCrop)]

\* What extract_text_with_yolo leaves when detect_labels was not called.
YoloUndetected == [exc |-> "none", msg |-> <<>>, labels |-> <<>>]

\* The whole call: the dict returned, the OCR calls made, whether
\* detect_labels was called and what it and the selection gave, the crop,
\* the temporary file and the files left behind.
extract_text_with_yolo(model_loaded, path, img, use_detection, confidence_threshold, strat, save_cropped, visualize, mkstemp_ok, response) ==
    LET y == YOLOLabelDetector(model_loaded, confidence_threshold)
        d == yolo_detect_labels(y, path, img)
        full == OcrCall(path, <<0, 0, img.W, img.H>>)
        none == [d |-> YoloUndetected, detect_called |-> FALSE, b |-> NoBest,
                 crop |-> NotCropped, temp |-> NoPath, files |-> {}, vis |-> {},
                 result |-> YoloResultDict(use_detection), calls |-> <<>>]
    IN  IF ~use_detection
        THEN [none EXCEPT
                !.result = yolo_ocr_extract_text_from_image(path, Exists(path), response),
                !.calls = <<full>>]
        ELSE IF ~is_ready(y)
        THEN [none EXCEPT !.result = not_ready_fallback(path, img, response).result,
                          !.calls = not_ready_fallback(path, img, response).calls]
        ELSE IF d.exc # "none"
        THEN [none EXCEPT !.d = d, !.detect_called = TRUE,
                          !.result = YoloDetectionError(YoloResultDict(TRUE), d.msg)]
        ELSE IF d.labels # <<>>
        THEN LET b == yolo_get_best_label(d.labels, strat)
                 r == yolo_label_branch(path, img, d.labels, b, save_cropped,
                                        mkstemp_ok, response)
             IN  [d |-> d, detect_called |-> TRUE, b |-> b, crop |-> r.crop,
                  temp |-> r.temp, files |-> r.files,
                  vis |-> IF visualize THEN VisualizationFiles ELSE {},
                  result |-> r.result, calls |-> r.calls]
        ELSE [none EXCEPT !.d = d, !.detect_called = TRUE,
                          !.result = Merge(YoloResultDict(TRUE),
                                yolo_ocr_extract_text_from_image(path, Exists(path), response)),
                          !.calls = <<full>>]

\* extract_text_from_image(image_path, api_key, model_path): the wrapper
\* calls extract_text_with_yolo with use_detection=True and the defaults,
\* and returns success, text and error of its result.
extract_text_from_image(model_loaded, path, img, mkstemp_ok, response) ==
    LET r == extract_text_with_yolo(model_loaded, path, img, TRUE, <<1, 2>>,
                                    "most_confident", FALSE, FALSE, mkstemp_ok, response)
    IN  [r EXCEPT !.result = [success |-> r.result.success, text |-> r.result.text,
                              error |-> r.result.error]]

\* A box of the network narrower than a pixel: int() gives x1 = x2.
SliverBox == NetBox(20, 10, 21, 30, <<19, 20>>)

\* The images handed to extract_text_with_yolo.
YoloPipelineImages ==
    { Image(TRUE, PhotoDims, <<>>, bs) :
        bs \in SeqsUpTo({b \in NetBoxes : RLt(b.conf, <<9, 10>>)} \cup {SliverBox},
                        MaxContours) }
    \cup UnreadableImages

\* The thresholds extract_text_with_yolo is called with: the default.
YoloThresholds == {<<1, 2>>}

----------------------------------------------------------------------------
(* The /upload handler of the web application (src/ui/app.py).  A file      *)
(* name is the sequence of its parts between dots, a text the sequence of  *)
(* its characters; the files of the upload folder are numbered by the      *)
(* request that named them (uuid4 gives every request a fresh name).       *)

MaxUploads == 4

ALLOWED_EXTENSIONS == {"png", "jpg", "jpeg", "gif", "bmp", "webp"}

\* str.lower() on the last part of the names below.
Lower(part) == IF part = "JPG" THEN "jpg" ELSE part

\* '.' in filename and filename.rsplit('.', 1)[1].lower() in ALLOWED_EXTENSIONS
allowed_file(filename) ==
    Len(filename) >= 2 /\ Lower(filename[Len(filename)]) \in ALLOWED_EXTENSIONS

\* file.filename of the uploaded part; <<"">> is the empty name a form sends
\* when no file was chosen.
Filenames ==
    { <<"">>, <<"label", "jpg">>, <<"LABEL", "JPG">>, <<"notes", "txt">>, <<"label">> }

\* str.strip(): leading and trailing whitespace removed.
Whitespace == {" ", "\n"}

RECURSIVE LStrip(_)
LStrip(t) == IF t # <<>> /\ Head(t) \in Whitespace THEN LStrip(Tail(t)) ELSE t

RECURSIVE RStrip(_)
RStrip(t) ==
    IF t # <<>> /\ t[Len(t)] \in Whitespace THEN RStrip(SubSeq(t, 1, Len(t) - 1)) ELSE t

strip(t) == RStrip(LStrip(t))

\* What requests.post gives for the uploaded file.
UploadResponses ==
    { [raised |-> FALSE, status |-> 200, body |-> "text", text |-> <<"M", "I", "L", "K", "\n">>],
      [raised |-> FALSE, status |-> 200, body |-> "text", text |-> <<" ", "\n">>],
      [raised |-> FALSE, status |-> 200, body |-> "no_text", text |-> <<>>],
      [raised |-> FALSE, status |-> 200, body |-> "error", text |-> <<>>],
      [raised |-> FALSE, status |-> 403, body |-> "none", text |-> <<>>],
      [raised |-> TRUE, status |-> 0, body |-> "none", text |-> <<>>] }

\* models.ocr_processor.extract_text_from_image on a file that exists: it
\* catches every exception and returns success, text and error.
processor_extract_text_from_image(response) ==
    IF response.raised
    THEN [success |-> FALSE, text |-> <<>>, error |-> "Error: "]
    ELSE IF response.status # 200
    THEN [success |-> FALSE, text |-> <<>>, error |-> "API request failed with status code"]
    ELSE IF response.body = "error"
    THEN [success |-> FALSE, text |-> <<>>, error |-> "Unknown API error"]
    ELSE IF response.body = "text"
    THEN [success |-> TRUE, text |-> response.text, error |-> ""]
    ELSE IF response.body = "no_text"
    THEN [success |-> TRUE, text |-> <<>>, error |-> "No text detected in image"]
    ELSE [success |-> FALSE, text |-> <<>>, error |-> "Invalid API response"]

\* The application before any request: GOOGLE_VISION_API_KEY is read from
\* the environment when the module is loaded.
NoWeb(api_key) ==
    [api_key |-> api_key, folder |-> {}, last_upload |-> 0, next |-> 1,
     saved |-> 0, status |-> 0, error |-> "", extracted_text |-> <<>>]

\* return jsonify({'error': ...}), status
ErrorResponse(w, status, error) ==
    [w EXCEPT !.status = status, !.error = error, !.extracted_text = <<>>]

\* What file.save(filepath) did: wrote the file, raised before creating it,
\* or raised after creating it.
SaveOutcomes == {"saved", "raised", "raised_partial"}

\* upload_image(): the application after the request.  `saved` is the file
\* this request saved (0 if none), `folder` the files on disk.
upload_image(w, has_file, filename, save, response) ==
    LET none == [w EXCEPT !.saved = 0]
        id == w.next
        named == [none EXCEPT !.next = id + 1]
        ocr_result == processor_extract_text_from_image(response)
        extracted_text == strip(ocr_result.text)
    IN  IF ~has_file THEN ErrorResponse(none, 400, "No file uploaded")
        ELSE IF filename = <<"">> THEN ErrorResponse(none, 400, "No file selected")
        ELSE IF ~allowed_file(filename) THEN ErrorResponse(none, 400, "Invalid file type")
        ELSE IF save # "saved"
        THEN \* except Exception: the file is unlinked if it exists
             ErrorResponse(named, 500, "Error processing image")
        ELSE LET saved == [named EXCEPT !.saved = id, !.folder = @ \cup {id}]
                 unlinked == [saved EXCEPT !.folder = @ \ {id}]
             IN  IF ~w.api_key
                 THEN ErrorResponse(saved, 500, "Google Vision API key not configured")
                 ELSE IF ~ocr_result.success
                 THEN ErrorResponse(unlinked, 500, "OCR failed")
                 ELSE IF extracted_text = <<>>
                 THEN ErrorResponse(unlinked, 400, "No text detected in image")
                 ELSE [saved EXCEPT !.last_upload = id, !.status = 200, !.error = "",
                                    !.extracted_text = extracted_text]

----------------------------------------------------------------------------
(* Initial state and actions *)

\* No call is remembered.
NoMemo ==
    [set |-> FALSE, interleaved |-> FALSE, config |-> DefaultConfig,
     image_path |-> "", image |-> NoImage, debug |-> FALSE, exc |-> "none",
     labels |-> <<>>]

Init ==
    /\ config \in Configs
    /\ yolo \in {[confidence_threshold |-> <<1, 2>>, model_loaded |-> m] : m \in BOOLEAN}
    /\ pc = "idle"
    /\ detector = "none"
    /\ image_path = ""
    /\ image = NoImage
    /\ debug = FALSE
    /\ labels = <<>>
    /\ log = <<>>
    /\ exc = "none"
    /\ exc_msg = <<>>
    /\ strategy = ""
    /\ best = NoBest
    /\ debug_files = {}
    /\ crop = NoCrop
    /\ memo = NoMemo
    /\ ocr = NoOcr
    /\ web = NoWeb(TRUE)

\* detector.detect_shelf_labels(image_path, debug)
DetectCall(images) ==
    /\ \E img \in images, dbg \in BOOLEAN :
         \E path \in PathsOf(img) :
             \E r \in {detect_shelf_labels(config, path, img, dbg)} :
                 /\ image_path' = path
                 /\ image' = img
                 /\ debug' = dbg
                 /\ labels' = r.labels
                 /\ log' = r.log
                 /\ exc' = r.exc
                 /\ exc_msg' = r.msg
                 /\ pc' = IF r.exc = "none" THEN "detected" ELSE "failed"
                 /\ debug_files' = debug_files \cup r.files
    /\ detector' = "heuristic"
    /\ UNCHANGED <<web, config, yolo, strategy, best, crop, ocr>>

DetectShelfLabels ==
    /\ pc = "idle"
    /\ DetectCall(HeuristicImages \cup UnreadableImages)
    /\ UNCHANGED memo

\* detector.detect_labels(image_path, visualize) of the YOLO detector
YoloDetectLabels ==
    /\ pc = "idle"
    /\ \E img \in YoloImages(yolo.confidence_threshold) \cup UnreadableImages,
          visualize \in BOOLEAN :
         \E path \in PathsOf(img) :
             \E r \in {yolo_detect_labels(yolo, path, img)} :
                 /\ image_path' = path
                 /\ image' = img
                 /\ debug' = visualize
                 /\ labels' = r.labels
                 /\ exc' = r.exc
                 /\ exc_msg' = r.msg
                 /\ pc' = IF r.exc = "none" THEN "detected" ELSE "failed"
                 /\ debug_files' = IF r.exc = "none" /\ visualize /\ r.labels # <<>>
                                   THEN debug_files \cup VisualizationFiles
                                   ELSE debug_files
    /\ detector' = "yolo"
    /\ log' = <<>>
    /\ UNCHANGED <<web, config, yolo, strategy, best, crop, memo, ocr>>

\* detector.get_best_label(labels, strategy) of the heuristic detector
GetBestLabel ==
    /\ pc = "detected"
    /\ detector = "heuristic"
    /\ \E strat \in Strategies :
         /\ strategy' = strat
         /\ best' = get_best_label(labels, strat)
         /\ labels' = labels_after_get_best_label(labels, strat)
    /\ pc' = "selected"
    /\ UNCHANGED <<web, config, yolo, detector, image_path, image, debug, log,
                   exc, exc_msg, debug_files, crop, memo, ocr>>

\* detector.get_best_label(detections, strategy) of the YOLO detector
YoloGetBestLabel ==
    /\ pc = "detected"
    /\ detector = "yolo"
    /\ \E strat \in Strategies :
         /\ strategy' = strat
         /\ best' = yolo_get_best_label(labels, strat)
    /\ pc' = "selected"
    /\ UNCHANGED <<web, config, yolo, detector, image_path, image, debug, labels, log,
                   exc, exc_msg, debug_files, crop, memo, ocr>>

\* The paths, images and boxes a crop_to_label call can be given: the
\* selected candidate's box on the image it was detected in (get_label_crop),
\* or a box the caller supplies.
CropArguments(by, boxes) ==
    IF pc = "selected"
    THEN IF detector = by /\ best.ref > 0
         THEN {<<image_path, image, labels[best.ref].bbox>>} ELSE {}
    ELSE LET given == {<<Image(TRUE, c[1], <<>>, <<>>), boxes[c]>> : c \in DOMAIN boxes}
                      \cup {<<NoImage, boxes[c]>> : c \in DOMAIN boxes}
         IN  UNION { {<<path, g[1], g[2]>> : path \in PathsOf(g[1])} : g \in given }

\* detector.crop_to_label(image_path, bbox, output_path) of the heuristic detector
CropToLabel ==
    /\ pc \in {"idle", "selected"}
    /\ \E call \in CropArguments("heuristic", [c \in CropCalls |-> c[2]]),
          output_path \in BOOLEAN :
         \E r \in {crop_to_label(call[2], call[3], output_path)} :
             /\ image_path' = call[1]
             /\ image' = call[2]
             /\ crop' = Cropped("heuristic", call[3], label_padding, r)
             /\ exc' = r.exc
             /\ exc_msg' = r.msg
             /\ pc' = IF r.exc = "none" THEN "cropped" ELSE "failed"
    /\ UNCHANGED <<web, config, yolo, detector, debug, labels, log, strategy, best,
                   debug_files, memo, ocr>>

\* detector.crop_to_label(image_path, bbox, output_path, padding) of the YOLO
\* detector
YoloCropToLabel ==
    /\ pc \in {"idle", "selected"}
    /\ \E call \in CropArguments("yolo", [c \in CropCalls |-> Corners(c[2])]),
          output_path \in BOOLEAN, padding \in Paddings :
         \E r \in {yolo_crop_to_label(call[2], call[3], output_path, padding)} :
             /\ image_path' = call[1]
             /\ image' = call[2]
             /\ crop' = Cropped("yolo", call[3], padding, r)
             /\ exc' = r.exc
             /\ exc_msg' = r.msg
             /\ pc' = IF r.exc = "none" THEN "cropped" ELSE "failed"
    /\ UNCHANGED <<web, config, yolo, detector, debug, labels, log, strategy, best,
                   debug_files, memo, ocr>>

\* The caller returns; the image, the list, the selection and the crop are
\* dropped.
Return ==
    /\ pc \in {"detected", "selected", "cropped", "extracted", "filtered", "failed"}
    /\ pc' = "idle"
    /\ detector' = "none"
    /\ image_path' = ""
    /\ image' = NoImage
    /\ debug' = FALSE
    /\ labels' = <<>>
    /\ log' = <<>>
    /\ exc' = "none"
    /\ exc_msg' = <<>>
    /\ strategy' = ""
    /\ best' = NoBest
    /\ crop' = NoCrop
    /\ ocr' = NoOcr
    /\ UNCHANGED <<web, config, yolo, debug_files, memo>>

Next ==
    \/ DetectShelfLabels
    \/ YoloDetectLabels
    \/ GetBestLabel
    \/ YoloGetBestLabel
    \/ CropToLabel
    \/ YoloCropToLabel
    \/ Return

Spec == Init /\ [][Next]_vars

----------------------------------------------------------------------------
(* Repeated detection.  One caller keeps calling detect_shelf_labels, on   *)
(* the detector it has or on one it constructs anew, without dropping the  *)
(* list of the call before; `memo` holds one of the calls made so far.     *)

\* The images of the repeated calls: thumbnails made of two of the contours,
\* a photo with the printed label or nothing, a file that is no image.
RepeatedContours ==
    { Contour(10, 10, 10, 2, <<200, 1>>, 3), Contour(4, 10, 10, 3, <<0, 1>>, 0) }

RepeatedImages ==
    { Image(TRUE, ThumbDims, cs, <<>>) : cs \in SeqsUpTo(RepeatedContours, MaxContours) }
    \cup { Image(TRUE, PhotoDims, <<>>, <<>>),
           Image(TRUE, PhotoDims, <<Contour(250, 450, 300, 50, <<230, 1>>, 2250)>>, <<>>) }
    \cup UnreadableImages

\* The call that has just returned or raised, as `memo` holds it.
ThisCall ==
    [set |-> TRUE, interleaved |-> FALSE, config |-> config,
     image_path |-> image_path, image |-> image, debug |-> debug, exc |-> exc,
     labels |-> labels]

\* The configurations of the detectors the caller constructs: those of
\* Configs, and the thumbnail one with the bottom region reduced to a tenth
\* of the height.
DetectorConfigs ==
    Configs \cup {[ThumbConfig EXCEPT !.bottom_region_ratio = <<1, 10>>]}

\* LabelDetector(...): the caller constructs another detector and uses it
\* from now on.
NewDetector ==
    /\ pc = "idle"
    /\ config' \in DetectorConfigs \ {config}
    /\ UNCHANGED <<web, yolo, pc, detector, image_path, image, debug, labels, log, exc,
                   exc_msg, strategy, best, debug_files, crop, memo, ocr>>

\* detector.detect_shelf_labels(image_path, debug), once more.  `memo` keeps
\* the call it holds, noting whether this call differs from it, or takes
\* this call.
DetectShelfLabelsAgain ==
    /\ pc \in {"idle", "detected", "failed"}
    /\ detector \in {"none", "heuristic"}
    /\ DetectCall(RepeatedImages)
    /\ memo' \in
         { IF memo.set
           THEN [memo EXCEPT !.interleaved =
                    @ \/ config # memo.config \/ image' # memo.image
                      \/ image_path' # memo.image_path \/ debug' # memo.debug]
           ELSE memo,
           ThisCall' }

NextRepeat ==
    \/ NewDetector
    \/ DetectShelfLabelsAgain
    \/ Return

\* The trained-model detector takes no part.
InitRepeat == Init /\ ~yolo.model_loaded

SpecRepeat == InitRepeat /\ [][NextRepeat]_vars

----------------------------------------------------------------------------
(* The label-detection OCR pipeline as a state machine *)

\* extract_text_with_label_detection(image_path, api_key, use_detection,
\* strategy, save_cropped, debug)
ExtractTextWithLabelDetection ==
    /\ pc = "idle"
    /\ \E img \in PipelineImages, use_detection \in BOOLEAN, strat \in Strategies,
          save_cropped \in BOOLEAN, dbg \in BOOLEAN, mkstemp_ok \in BOOLEAN,
          response \in Responses :
         \E path \in PathsOf(img) :
             \E r \in {extract_text_with_label_detection(path, img, use_detection,
                           strat, save_cropped, dbg, mkstemp_ok, response)} :
                 /\ image_path' = path
                 /\ image' = img
                 /\ debug' = dbg
                 /\ strategy' = strat
                 /\ detector' = IF use_detection THEN "heuristic" ELSE "none"
                 /\ labels' = r.d.labels
                 /\ log' = r.d.log
                 /\ best' = r.b
                 /\ crop' = IF r.b.ref > 0 /\ mkstemp_ok
                            THEN Cropped("heuristic", r.d.labels[r.b.ref].bbox,
                                         label_padding, r.crop)
                            ELSE NoCrop
                 /\ debug_files' = debug_files \cup r.d.files
                 /\ ocr' = [by |-> "extract_text_with_label_detection",
                            use_detection |-> use_detection,
                            save_cropped |-> save_cropped,
                            mkstemp_ok |-> mkstemp_ok, model_loaded |-> FALSE,
                            detect_called |-> use_detection,
                            response |-> response,
                            result |-> r.result, calls |-> r.calls,
                            temp |-> r.temp, files |-> r.files]
    /\ exc' = "none"
    /\ exc_msg' = <<>>
    /\ pc' = "extracted"
    /\ UNCHANGED <<web, config, yolo, memo>>

\* What a call of extract_text_with_yolo or of the wrapper leaves.
YoloExtracted(by, img, path, strat, use_detection, model_loaded, save_cropped, visualize, mkstemp_ok, response, r) ==
    /\ image_path' = path
    /\ image' = img
    /\ debug' = visualize
    /\ strategy' = strat
    /\ detector' = IF r.detect_called THEN "yolo" ELSE "none"
    /\ labels' = r.d.labels
    /\ best' = r.b
    /\ crop' = IF r.b.ref > 0 /\ mkstemp_ok
               THEN Cropped("yolo", r.d.labels[r.b.ref].bbox, label_padding, r.crop)
               ELSE NoCrop
    /\ debug_files' = debug_files \cup r.vis
    /\ ocr' = [by |-> by, use_detection |-> use_detection,
               save_cropped |-> save_cropped, mkstemp_ok |-> mkstemp_ok,
               model_loaded |-> model_loaded, detect_called |-> r.detect_called,
               response |-> response, result |-> r.result, calls |-> r.calls,
               temp |-> r.temp, files |-> r.files]
    /\ log' = <<>>
    /\ exc' = "none"
    /\ exc_msg' = <<>>
    /\ pc' = "extracted"
    /\ UNCHANGED <<web, config, yolo, memo>>

\* extract_text_with_yolo(image_path, api_key, model_path, use_detection,
\* confidence_threshold, strategy, save_cropped, visualize)
ExtractTextWithYolo ==
    /\ pc = "idle"
    /\ \E img \in YoloPipelineImages, model_loaded \in BOOLEAN,
          use_detection \in BOOLEAN, conf \in YoloThresholds, strat \in Strategies,
          save_cropped \in BOOLEAN, visualize \in BOOLEAN, mkstemp_ok \in BOOLEAN,
          response \in Responses :
         \E path \in PathsOf(img) :
             \E r \in {extract_text_with_yolo(model_loaded, path, img, use_detection,
                           conf, strat, save_cropped, visualize, mkstemp_ok, response)} :
                 YoloExtracted("extract_text_with_yolo", img, path, strat, use_detection,
                               model_loaded, save_cropped, visualize, mkstemp_ok,
                               response, r)

\* extract_text_from_image(image_path, api_key, model_path) of ocr_with_yolo.py
ExtractTextFromImage ==
    /\ pc = "idle"
    /\ \E img \in YoloPipelineImages, model_loaded \in BOOLEAN,
          mkstemp_ok \in BOOLEAN, response \in Responses :
         \E path \in PathsOf(img) :
             \E r \in {extract_text_from_image(model_loaded, path, img, mkstemp_ok,
                                               response)} :
                 YoloExtracted("extract_text_from_image", img, path, "most_confident",
                               TRUE, model_loaded, FALSE, FALSE, mkstemp_ok, response, r)

NextOcr ==
    \/ ExtractTextWithLabelDetection
    \/ ExtractTextWithYolo
    \/ ExtractTextFromImage
    \/ Return

\* The function constructs its own LabelDetector() with the defaults.
InitOcr == Init /\ config = DefaultConfig /\ ~yolo.model_loaded

SpecOcr == InitOcr /\ [][NextOcr]_vars

----------------------------------------------------------------------------
(* The loop body on raw boxes.  cv2.boundingRect gives w, h >= 1; the code *)
(* guards against h = 0 all the same, and this is that guard and the       *)
(* filter applied to boxes of any extent.                                  *)

\* Configurations with the lower bounds switched off: the constructor takes
\* every value.
RawBoxConfigs ==
    Configs \cup
    { [ThumbConfig EXCEPT !.min_height = 0],
      [ThumbConfig EXCEPT !.min_aspect_ratio = <<0, 1>>],
      [ThumbConfig EXCEPT !.min_height = 0, !.min_aspect_ratio = <<0, 1>>],
      [DefaultConfig EXCEPT !.min_height = 0, !.min_aspect_ratio = <<0, 1>>] }

\* Boxes of height 0 and, next to them, boxes with an interior.
RawBoxes ==
    { Contour(10, 10, 10, 0, <<0, 1>>, 0),     \* a horizontal line
      Contour(10, 10, 5, 0, <<0, 1>>, 0),
      Contour(10, 2, 10, 0, <<0, 1>>, 0),      \* in the top fifth
      Contour(0, 10, 40, 0, <<0, 1>>, 0),      \* as wide as the thumbnail
      Contour(250, 450, 300, 0, <<0, 1>>, 0),
      Contour(10, 10, 0, 0, <<0, 1>>, 0),      \* a point
      Contour(10, 10, 2, 0, <<0, 1>>, 0),
      Contour(10, 10, 10, 2, <<200, 1>>, 3),
      Contour(250, 450, 300, 50, <<230, 1>>, 2250),
      Contour(4, 10, 10, 3, <<0, 1>>, 0) }

\* for contour in contours: ... up to the call of _calculate_confidence, on
\* one raw box.
RawBoxStep ==
    /\ pc = "idle"
    /\ \E dims \in {ThumbDims, PhotoDims}, c \in RawBoxes :
         /\ image' = Image(TRUE, dims, <<c>>, <<>>)
         /\ log' = <<raw_box_step(config, c, dims[1], dims[2])>>
    /\ pc' = "filtered"
    /\ detector' = "heuristic"
    /\ image_path' = "shelf.jpg"
    /\ UNCHANGED <<web, config, yolo, debug, labels, exc, exc_msg, strategy, best,
                   debug_files, crop, memo, ocr>>

NextRawBox ==
    \/ RawBoxStep
    \/ Return

InitRawBox ==
    /\ config \in RawBoxConfigs
    /\ yolo = [confidence_threshold |-> <<1, 2>>, model_loaded |-> FALSE]
    /\ pc = "idle"
    /\ detector = "none"
    /\ image_path = ""
    /\ image = NoImage
    /\ debug = FALSE
    /\ labels = <<>>
    /\ log = <<>>
    /\ exc = "none"
    /\ exc_msg = <<>>
    /\ strategy = ""
    /\ best = NoBest
    /\ debug_files = {}
    /\ crop = NoCrop
    /\ memo = NoMemo
    /\ ocr = NoOcr
    /\ web = NoWeb(TRUE)

SpecRawBox == InitRawBox /\ [][NextRawBox]_vars

----------------------------------------------------------------------------
(* The web application as a state machine *)

\* POST /upload
UploadImage ==
    /\ web.next <= MaxUploads
    /\ \E has_file \in BOOLEAN, filename \in Filenames, save \in SaveOutcomes,
          response \in UploadResponses :
         web' = upload_image(web, has_file, filename, save, response)
    /\ UNCHANGED <<config, yolo, pc, detector, image_path, image, debug, labels, log,
                   exc, exc_msg, strategy, best, debug_files, crop, memo, ocr>>

NextUpload == UploadImage

InitUpload ==
    /\ web \in {NoWeb(api_key) : api_key \in BOOLEAN}
    /\ config = DefaultConfig
    /\ yolo = [confidence_threshold |-> <<1, 2>>, model_loaded |-> FALSE]
    /\ pc = "idle"
    /\ detector = "none"
    /\ image_path = ""
    /\ image = NoImage
    /\ debug = FALSE
    /\ labels = <<>>
    /\ log = <<>>
    /\ exc = "none"
    /\ exc_msg = <<>>
    /\ strategy = ""
    /\ best = NoBest
    /\ debug_files = {}
    /\ crop = NoCrop
    /\ memo = NoMemo
    /\ ocr = NoOcr

SpecUpload == InitUpload /\ [][NextUpload]_vars

----------------------------------------------------------------------------
(* Properties *)

\* The heuristic detection call of this run has returned a list.
HeuristicReturned == detector = "heuristic" /\ pc \in {"detected", "selected"}

\* get_best_label has returned (or raised) for the list in `labels`.
Selected == pc = "selected"

BboxOf(c) == <<c.x, c.y, c.w, c.h>>

\* The contour a returned candidate was built from is the one with its bbox.
Listed(c) == \E k \in 1..Len(labels) : labels[k].bbox = BboxOf(c)

\* C1: the list returned by detect_shelf_labels is in non-increasing order
\* of confidence: for i < j, labels[i].confidence >= labels[j].confidence.
C1_SortedByConfidence ==
    HeuristicReturned =>
        \A i, j \in 1..Len(labels) :
            i < j => RLe(labels[j].confidence, labels[i].confidence)

\* C1 witness: three candidates were returned, the first with a higher
\* confidence than the last, although its contour came last.
C1_Witness ==
    /\ HeuristicReturned
    /\ Len(labels) = 3
    /\ RLt(labels[3].confidence, labels[1].confidence)
    /\ BboxOf(image.contours[Len(image.contours)]) = labels[1].bbox

\* C2: every confidence computed by detection, for a returned candidate or
\* for an admissible box dropped by the threshold, lies in [0, 1].
C2_ConfidenceInUnitInterval ==
    HeuristicReturned =>
        /\ \A i \in 1..Len(log) :
              log[i].scored => /\ RLe(RInt(0), log[i].confidence)
                               /\ RLe(log[i].confidence, RInt(1))
        /\ \A k \in 1..Len(labels) :
              /\ RLe(RInt(0), labels[k].confidence)
              /\ RLe(labels[k].confidence, RInt(1))

\* C2 witness: one scored region has every pixel an edge (edge fraction 1)
\* and mean brightness 0, another reaches confidence exactly 1.
C2_Witness ==
    /\ HeuristicReturned
    /\ \E i \in 1..Len(log) :
          /\ log[i].scored
          /\ image.contours[i].edges = image.contours[i].w * image.contours[i].h
          /\ image.contours[i].mean = RInt(0)
    /\ \E i \in 1..Len(log) : log[i].scored /\ log[i].confidence = RInt(1)

\* C3: every returned candidate's bbox (x, y, w, h) lies inside the W x H
\* image: 0 <= x, 0 <= y, x + w <= W, y + h <= H.
C3_BboxInsideImage ==
    HeuristicReturned =>
        \A k \in 1..Len(labels) :
            /\ 0 <= labels[k].bbox[1]
            /\ 0 <= labels[k].bbox[2]
            /\ labels[k].bbox[1] + labels[k].bbox[3] <= image.W
            /\ labels[k].bbox[2] + labels[k].bbox[4] <= image.H

\* C3 witness: a returned candidate reaches the right border of the image.
C3_Witness ==
    /\ HeuristicReturned
    /\ \E k \in 1..Len(labels) : labels[k].bbox[1] + labels[k].bbox[3] = image.W

\* The four admissibility rules as the claim states them, in integers:
\* the size rule, the aspect-ratio rule, the width rule, the position rule.
SizeRule(c) == c.w >= config.min_width /\ c.h >= config.min_height
AspectRule(c) ==
    /\ config.min_aspect_ratio[1] * c.h <= c.w * config.min_aspect_ratio[2]
    /\ c.w * config.max_aspect_ratio[2] <= config.max_aspect_ratio[1] * c.h
WidthRule(c) == c.w * config.max_width_ratio[2] <= image.W * config.max_width_ratio[1]
PositionRule(c) == 5 * c.y >= image.H

\* C4: a raw box passes _is_valid_label if and only if it satisfies all
\* four rules, and a box failing a rule is not in the returned list.
C4_AdmissibleIffFourRules ==
    HeuristicReturned =>
        \A i \in 1..Len(image.contours) :
            LET c == image.contours[i]
                rules == SizeRule(c) /\ AspectRule(c) /\ WidthRule(c) /\ PositionRule(c)
            IN  /\ log[i].valid <=> rules
                /\ ~rules => ~Listed(c)

\* C4 witness: one image with a box that passes all rules, a box that fails
\* only the width rule and a box that fails only the position rule.
C4_Witness ==
    /\ HeuristicReturned
    /\ \E i \in 1..Len(log) : log[i].valid
    /\ \E i \in 1..Len(log) :
          LET c == image.contours[i]
          IN  SizeRule(c) /\ AspectRule(c) /\ ~WidthRule(c) /\ PositionRule(c)
    /\ \E i \in 1..Len(log) :
          LET c == image.contours[i]
          IN  SizeRule(c) /\ AspectRule(c) /\ WidthRule(c) /\ ~PositionRule(c)

\* C5: every returned candidate has confidence >= confidence_threshold, and
\* an admissible box is in the returned list exactly when its confidence is
\* not below the threshold; equality keeps the box.
C5_ThresholdKeepsAtOrAbove ==
    HeuristicReturned =>
        /\ \A k \in 1..Len(labels) :
              RLe(config.confidence_threshold, labels[k].confidence)
        /\ \A i \in 1..Len(log) :
              log[i].valid =>
                 (Listed(image.contours[i])
                    <=> RLe(config.confidence_threshold, log[i].confidence))

\* C5 witness: an admissible box whose confidence equals the threshold is
\* in the list, and an admissible box below the threshold is not.
C5_Witness ==
    /\ HeuristicReturned
    /\ \E i \in 1..Len(log) :
          /\ log[i].valid
          /\ log[i].confidence = config.confidence_threshold
          /\ Listed(image.contours[i])
    /\ \E i \in 1..Len(log) :
          /\ log[i].valid
          /\ RLt(log[i].confidence, config.confidence_threshold)
          /\ ~Listed(image.contours[i])

\* C6: get_best_label of either detector, given an empty list, returns None
\* and raises nothing, whatever the strategy string.
C6_EmptyListGivesNone ==
    (Selected /\ labels = <<>>) => best = [exc |-> "none", ref |-> 0]

\* C6 witness: the heuristic detector's get_best_label was called with an
\* empty list and strategy 'largest'.
C6_Witness ==
    Selected /\ detector = "heuristic" /\ labels = <<>> /\ strategy = "largest"

\* C7: for a non-empty list, strategy 'largest' returns a candidate of
\* maximum area, and the first such candidate of the list.
C7_LargestIsFirstOfMaxArea ==
    (Selected /\ detector = "heuristic" /\ strategy = "largest" /\ labels # <<>>) =>
        /\ best.exc = "none"
        /\ best.ref \in 1..Len(labels)
        /\ \A j \in 1..Len(labels) : labels[j].area <= labels[best.ref].area
        /\ \A j \in 1..Len(labels) :
              j < best.ref => labels[j].area < labels[best.ref].area

\* C7 witness: two candidates share the maximum area and neither is the
\* head of the list.
C7_Witness ==
    /\ Selected /\ detector = "heuristic" /\ strategy = "largest"
    /\ best.ref > 1
    /\ \E j \in 1..Len(labels) : j > best.ref /\ labels[j].area = labels[best.ref].area

\* Squared Euclidean distance of candidate i's center to the mean center of
\* the list, times Len(labels)^2 (so that it is an integer).
ScaledDistanceToMean(i) ==
    LET n == Len(labels)
        dx == n * labels[i].center[1] - SumCenter(labels, 1)
        dy == n * labels[i].center[2] - SumCenter(labels, 2)
    IN  dx * dx + dy * dy

NearestToMean(i) ==
    \A j \in 1..Len(labels) : ScaledDistanceToMean(i) <= ScaledDistanceToMean(j)

\* C8: for a non-empty list, strategy 'center' returns the candidate whose
\* center is nearest (Euclidean) to the mean center of all candidates.
C8_CenterIsNearestToMean ==
    (Selected /\ strategy = "center" /\ labels # <<>>) =>
        /\ best.exc = "none"
        /\ best.ref \in 1..Len(labels)
        /\ NearestToMean(best.ref)

\* C8, for the trained-model detector alone.
C8_YoloCenterIsNearestToMean ==
    (Selected /\ detector = "yolo" /\ strategy = "center" /\ labels # <<>>) =>
        /\ best.exc = "none"
        /\ best.ref \in 1..Len(labels)
        /\ NearestToMean(best.ref)

\* C9: for a list returned by detect_shelf_labels, strategy 'most_confident'
\* returns the first element, whose confidence is the maximum of the list.
C9_MostConfidentIsHeadAndMax ==
    (Selected /\ detector = "heuristic" /\ strategy = "most_confident" /\ labels # <<>>) =>
        /\ best = [exc |-> "none", ref |-> 1]
        /\ \A j \in 1..Len(labels) : RLe(labels[j].confidence, labels[1].confidence)

\* C9 witness: the list has candidates of different confidence, and the
\* contour of the most confident one was not the first contour.
C9_Witness ==
    /\ Selected /\ detector = "heuristic" /\ strategy = "most_confident"
    /\ Len(labels) >= 2
    /\ RLt(labels[Len(labels)].confidence, labels[1].confidence)
    /\ BboxOf(image.contours[1]) # labels[1].bbox

\* C10: for a non-empty list and a strategy string that is none of the three
\* known ones, get_best_label of either detector returns the first element
\* and raises nothing.
C10_UnknownStrategyGivesHead ==
    (Selected /\ strategy \notin {"most_confident", "largest", "center"} /\ labels # <<>>) =>
        best = [exc |-> "none", ref |-> 1]

\* C10 witness: the trained-model detector's get_best_label was called with
\* strategy 'smallest' on a list whose largest candidate is not the head.
C10_Witness ==
    /\ Selected /\ detector = "yolo" /\ strategy = "smallest"
    /\ Len(labels) >= 2
    /\ \E j \in 2..Len(labels) : labels[j].area > labels[1].area

\* A crop_to_label call of the heuristic detector on a decodable image has
\* returned or raised.
HeuristicCropCalled ==
    pc \in {"cropped", "failed"} /\ crop.by = "heuristic" /\ image.readable

\* The box (x, y, w, h) padded by pw and ph on each side and intersected with
\* the image, as <<left, top, right, bottom>>.
PaddedBoxInImage(x, y, w, h, pw, ph) ==
    <<Max(0, x - pw), Max(0, y - ph), Min(image.W, x + w + pw), Min(image.H, y + h + ph)>>

\* C11: crop_to_label on a W x H image with bbox (x, y, w, h) extracts the box
\* padded by floor(0.05*w) and floor(0.05*h) on each side and intersected
\* with the image; a padding clamped at the left or top edge does not move to
\* the right or bottom edge.
C11_CropIsPaddedBoxInImage ==
    HeuristicCropCalled =>
        /\ pc = "cropped"
        /\ crop.rect = PaddedBoxInImage(crop.bbox[1], crop.bbox[2], crop.bbox[3],
                                        crop.bbox[4], crop.bbox[3] \div 20,
                                        crop.bbox[4] \div 20)

\* C11, for the trained-model detector alone, whose bbox is (x1, y1, x2, y2).
C11_YoloCropIsPaddedBoxInImage ==
    (pc \in {"cropped", "failed"} /\ crop.by = "yolo" /\ image.readable
        /\ crop.padding = label_padding) =>
        /\ pc = "cropped"
        /\ crop.rect = PaddedBoxInImage(crop.bbox[1], crop.bbox[2],
                                        crop.bbox[3] - crop.bbox[1],
                                        crop.bbox[4] - crop.bbox[2],
                                        (crop.bbox[3] - crop.bbox[1]) \div 20,
                                        (crop.bbox[4] - crop.bbox[2]) \div 20)

\* The box given to crop_to_label lies inside the image.
BboxInsideImage ==
    /\ crop.bbox[1] >= 0 /\ crop.bbox[2] >= 0
    /\ crop.bbox[3] >= 1 /\ crop.bbox[4] >= 1
    /\ crop.bbox[1] + crop.bbox[3] <= image.W
    /\ crop.bbox[2] + crop.bbox[4] <= image.H

\* C12: for a bbox inside a readable image, crop_to_label raises nothing and
\* the rectangle it extracts lies inside the image and contains the bbox.
C12_CropInsideImageContainsBbox ==
    (HeuristicCropCalled /\ BboxInsideImage) =>
        /\ pc = "cropped" /\ exc = "none"
        /\ 0 <= crop.rect[1] /\ crop.rect[1] <= crop.bbox[1]
        /\ 0 <= crop.rect[2] /\ crop.rect[2] <= crop.bbox[2]
        /\ crop.bbox[1] + crop.bbox[3] <= crop.rect[3] /\ crop.rect[3] <= image.W
        /\ crop.bbox[2] + crop.bbox[4] <= crop.rect[4] /\ crop.rect[4] <= image.H

\* C12 witness: a crop of a box in the bottom right corner, padded on the
\* left and at the top and cut off at the right and bottom edges.
C12_Witness ==
    /\ HeuristicCropCalled /\ BboxInsideImage /\ pc = "cropped"
    /\ crop.rect[1] < crop.bbox[1] /\ crop.rect[2] < crop.bbox[2]
    /\ crop.rect[3] = image.W /\ crop.rect[4] = image.H
    /\ crop.bbox[1] + crop.bbox[3] + crop.bbox[3] \div 20 > image.W
    /\ crop.bbox[2] + crop.bbox[4] + crop.bbox[4] \div 20 > image.H

\* The padded box of the crop_to_label call fits inside the image.
PaddedBoxFits ==
    /\ crop.bbox[1] - crop.bbox[3] \div 20 >= 0
    /\ crop.bbox[2] - crop.bbox[4] \div 20 >= 0
    /\ crop.bbox[1] + crop.bbox[3] + crop.bbox[3] \div 20 <= image.W
    /\ crop.bbox[2] + crop.bbox[4] + crop.bbox[4] \div 20 <= image.H

\* C13: when the padded box fits inside the image, the crop has width
\* w + 2*floor(0.05*w), height h + 2*floor(0.05*h) and origin
\* (x - floor(0.05*w), y - floor(0.05*h)); bbox (10,10,100,20) on a 200x200
\* image gives a crop 110 wide and 22 high.
C13_FittingCropSize ==
    /\ (HeuristicCropCalled /\ PaddedBoxFits) =>
          /\ pc = "cropped"
          /\ crop.rect[3] - crop.rect[1] = crop.bbox[3] + 2 * (crop.bbox[3] \div 20)
          /\ crop.rect[4] - crop.rect[2] = crop.bbox[4] + 2 * (crop.bbox[4] \div 20)
          /\ crop.rect[1] = crop.bbox[1] - crop.bbox[3] \div 20
          /\ crop.rect[2] = crop.bbox[2] - crop.bbox[4] \div 20
    /\ (HeuristicCropCalled /\ image.W = 200 /\ image.H = 200
           /\ crop.bbox = <<10, 10, 100, 20>>) =>
          /\ crop.rect[3] - crop.rect[1] = 110
          /\ crop.rect[4] - crop.rect[2] = 22

\* C13 witness: the crop of bbox (10,10,100,20) on a 200x200 image has
\* returned.
C13_Witness ==
    /\ HeuristicCropCalled /\ pc = "cropped" /\ PaddedBoxFits
    /\ image.W = 200 /\ image.H = 200
    /\ crop.bbox = <<10, 10, 100, 20>>
    /\ crop.rect = <<5, 9, 115, 31>>

\* detect_shelf_labels has been called in this run and has returned or raised.
HeuristicDetectCalled == detector = "heuristic" /\ pc # "idle"

\* The filter admits contour c of the image and its score reaches the
\* threshold.
Qualifies(c) ==
    /\ SizeRule(c) /\ AspectRule(c) /\ WidthRule(c) /\ PositionRule(c)
    /\ RLe(config.confidence_threshold,
           calculate_confidence(c, Rat(c.w, c.h), image.W, image.H))

\* C14: when a decodable image has no qualifying region (no contours, or
\* every box rejected by the filter or the threshold), detect_shelf_labels
\* returns an empty list and raises nothing.
C14_NoQualifyingRegionGivesEmptyList ==
    (HeuristicDetectCalled /\ image.readable
        /\ \A i \in 1..Len(image.contours) : ~Qualifies(image.contours[i])) =>
        /\ pc # "failed"
        /\ exc = "none"
        /\ labels = <<>>

\* C14 witness: detection returned the empty list for an image with a box the
\* filter rejects and a box it admits whose score is below the threshold.
C14_Witness ==
    /\ HeuristicDetectCalled /\ image.readable /\ pc = "detected"
    /\ labels = <<>>
    /\ \E i, j \in 1..Len(log) :
         /\ ~log[i].valid
         /\ log[j].valid /\ RLt(log[j].confidence, config.confidence_threshold)

\* The call that has just returned or raised is a call of the detector that
\* made the remembered call, or of one with the same configuration, on the
\* same image.
SameImageAndConfiguration ==
    /\ HeuristicDetectCalled /\ memo.set
    /\ memo.config = config
    /\ memo.image_path = image_path /\ memo.image = image

C16_DebugDoesNotChangeList ==
    (SameImageAndConfiguration /\ debug # memo.debug) =>
        /\ exc = memo.exc
        /\ labels = memo.labels
        /\ image.readable => DebugFiles \subseteq debug_files

\* C16 witness: a call with debug=True returned the two candidates, reordered
\* by the sort, that a call with debug=False had returned.
C16_Witness ==
    /\ SameImageAndConfiguration /\ pc = "detected"
    /\ debug /\ ~memo.debug
    /\ Len(labels) = 2
    /\ BboxOf(image.contours[1]) # labels[1].bbox
    /\ DebugFiles \subseteq debug_files

\* detect_shelf_labels was given a file that cannot be decoded and failed
\* with an exception of class `kind` whose message names the path, having
\* looked at no contour and returned no list.
LoadFailsWith(kind) ==
    (HeuristicDetectCalled /\ ~image.readable) =>
        /\ pc = "failed"
        /\ exc = kind
        /\ \E k \in 1..Len(exc_msg) : exc_msg[k] = image_path
        /\ log = <<>>
        /\ labels = <<>>

DetectionPipelineRan ==
    /\ pc = "extracted" /\ ocr.by = "extract_text_with_label_detection"
    /\ ocr.use_detection /\ image.readable

\* The dict returned has the success, text and error of the OCR of `call`
\* under the answer the service gave.
ResultIsThatOfOcr(call) ==
    LET ocr_result == ocr_extract_text_from_image(call.file, TRUE, ocr.response)
    IN  /\ ocr.result.success = ocr_result.success
        /\ ocr.result.text = ocr_result.text
        /\ ocr.result.error = ocr_result.error

\* The dict returned names the selected candidate.
ResultNamesSelected ==
    /\ best.exc = "none" /\ best.ref \in 1..Len(labels)
    /\ best = get_best_label(labels, strategy)
    /\ ocr.result.label_found
    /\ ocr.result.bbox = labels[best.ref].bbox
    /\ ocr.result.confidence = labels[best.ref].confidence

\* One OCR call was made: on the temporary file holding the padded crop of
\* the selected candidate if the list is non-empty, on the original image if
\* it is empty; success, text and error are those of that call.
OcrOnceOnCropOrFullImage ==
    /\ Len(ocr.calls) = 1
    /\ IF labels # <<>>
       THEN /\ ResultNamesSelected
            /\ crop.by = "heuristic" /\ crop.saved
            /\ crop.bbox = labels[best.ref].bbox
            /\ crop.rect[1] <= crop.bbox[1] /\ crop.rect[2] <= crop.bbox[2]
            /\ crop.rect[3] >= crop.bbox[1] + crop.bbox[3]
            /\ crop.rect[4] >= crop.bbox[2] + crop.bbox[4]
            /\ ocr.calls[1] = OcrCall(TempCrop, crop.rect)
       ELSE /\ ocr.calls[1] = OcrCall(image_path, <<0, 0, image.W, image.H>>)
            /\ ~ocr.result.label_found
            /\ ocr.result.bbox = None
            /\ ocr.result.confidence = None
    /\ ResultIsThatOfOcr(ocr.calls[1])

\* C18, as claimed: with use_detection=True and a decodable image, OCR is
\* invoked exactly once, on the padded crop of the selected candidate when
\* detection returns a non-empty list and on the full image when it returns
\* an empty one, and success, text and error are those of that call.
C18_OcrExactlyOnce ==
    DetectionPipelineRan => OcrOnceOnCropOrFullImage

\* C18, amended: that holds unless a label was found and the temporary file
\* for the crop could not be created; then OCR is not invoked and the result
\* is a failure naming the selected candidate.
C18_OcrOnceUnlessTempFileFails ==
    DetectionPipelineRan =>
        IF labels # <<>> /\ ~ocr.mkstemp_ok
        THEN /\ ocr.calls = <<>>
             /\ ResultNamesSelected
             /\ ~ocr.result.success
             /\ ocr.result.text = ""
             /\ ocr.result.error[1] = "Label detection error: "
        ELSE OcrOnceOnCropOrFullImage

\* C18 witness: a label was found, its crop was given to the OCR, and the
\* text the service read in it was returned.
C18_Witness ==
    /\ DetectionPipelineRan /\ labels # <<>> /\ ocr.mkstemp_ok
    /\ ocr.calls = <<OcrCall(TempCrop, <<235, 448, 565, 502>>)>>
    /\ ocr.result.success /\ ocr.result.text = "MILK 2.49"
    /\ ocr.result.bbox = <<250, 450, 300, 50>>

\* The position among the image's contours of the contour candidate k of the
\* returned list was built from.
ContourOf(k) ==
    CHOOSE i \in 1..Len(image.contours) : BboxOf(image.contours[i]) = labels[k].bbox

\* C19: candidates of equal confidence are in the returned list in the order
\* in which the extractor produced their contours (the sort is stable).
C19_TiesKeepContourOrder ==
    HeuristicReturned =>
        \A i, j \in 1..Len(labels) :
            (i < j /\ labels[i].confidence = labels[j].confidence) =>
                ContourOf(i) < ContourOf(j)

\* C19 witness: of three candidates the second contour's has the highest
\* confidence and was moved to the front; the first and the third contour's
\* have equal confidence and follow in that order.
C19_Witness ==
    /\ HeuristicReturned
    /\ Len(labels) = 3 /\ Len(image.contours) = 3
    /\ RLt(labels[2].confidence, labels[1].confidence)
    /\ labels[2].confidence = labels[3].confidence
    /\ ContourOf(1) = 2 /\ ContourOf(2) = 1 /\ ContourOf(3) = 3

\* C20: under the default configuration a box with w = h that passes the
\* size, width and position rules is rejected by the aspect-ratio rule, and
\* _calculate_confidence is called for a box only after _is_valid_label has
\* returned True for it.
C20_SquareRejectedAndNeverScored ==
    (HeuristicDetectCalled /\ image.readable) =>
        /\ Len(log) = Len(image.contours)
        /\ \A i \in 1..Len(log) :
             /\ log[i].scored => log[i].valid
             /\ (config = DefaultConfig
                   /\ image.contours[i].w = image.contours[i].h
                   /\ SizeRule(image.contours[i])
                   /\ WidthRule(image.contours[i])
                   /\ PositionRule(image.contours[i])) =>
                    /\ ~log[i].valid
                    /\ ~log[i].scored
                    /\ ~Listed(image.contours[i])

\* C20 witness: under the default configuration the 100x100 box at (100, 300)
\* of an 800x600 image was rejected without a score, after a box that was
\* scored and kept.
C20_Witness ==
    /\ HeuristicDetectCalled /\ image.readable /\ config = DefaultConfig
    /\ Len(log) >= 2
    /\ log[1].valid /\ log[1].scored /\ log[1].kept
    /\ BboxOf(image.contours[2]) = <<100, 300, 100, 100>>
    /\ SizeRule(image.contours[2]) /\ WidthRule(image.contours[2])
    /\ PositionRule(image.contours[2])
    /\ ~log[2].valid /\ ~log[2].scored

\* The call that has just returned or raised was made on the image of the
\* remembered call, by a detector whose configuration differs from that
\* call's detector's in bottom_region_ratio and in nothing else.
SameImageOtherBottomRegion ==
    /\ HeuristicDetectCalled /\ memo.set
    /\ memo.config.bottom_region_ratio # config.bottom_region_ratio
    /\ [memo.config EXCEPT !.bottom_region_ratio = config.bottom_region_ratio] = config
    /\ memo.image_path = image_path /\ memo.image = image

\* C21: two detectors whose configurations differ only in
\* bottom_region_ratio return identical candidate lists for every image; the
\* position rule is the fixed top fifth of the image.
C21_BottomRegionRatioIsUnused ==
    SameImageOtherBottomRegion =>
        /\ exc = memo.exc
        /\ labels = memo.labels

\* C21 witness: a detector with bottom_region_ratio 0.1 returned the same two
\* candidates as one with 0.6 had, both boxes lying above the bottom tenth
\* of the image.
C21_Witness ==
    /\ SameImageOtherBottomRegion /\ pc = "detected"
    /\ config.bottom_region_ratio = <<1, 10>>
    /\ memo.config.bottom_region_ratio = <<3, 5>>
    /\ Len(labels) = 2 /\ labels = memo.labels
    /\ \A k \in 1..2 : 10 * labels[k].bbox[2] < 9 * image.H

----------------------------------------------------------------------------
(* The printed label of the 800 x 600 photograph *)

IsPrintedLabel(c) == BboxOf(c) = <<250, 450, 300, 50>>

DefaultOnPhoto ==
    /\ HeuristicDetectCalled /\ image.readable
    /\ config = DefaultConfig /\ <<image.W, image.H>> = PhotoDims

\* C22: under the default configuration the box (250, 450, 300, 50) of an
\* 800 x 600 image passes every rule of the filter, has aspect ratio 6, is
\* scored strictly above 0.5 whatever the mean grey level and the number of
\* edge pixels of its region, and is in the returned list.
C22_PrintedLabelIsReturned ==
    DefaultOnPhoto =>
        \A i \in 1..Len(image.contours) :
            LET c == image.contours[i]
            IN  IsPrintedLabel(c) =>
                    /\ SizeRule(c) /\ AspectRule(c) /\ WidthRule(c) /\ PositionRule(c)
                    /\ log[i].valid /\ log[i].scored
                    /\ RLt(<<1, 2>>, log[i].confidence)
                    /\ log[i].kept
                    /\ \E k \in 1..Len(labels) :
                          /\ labels[k].bbox = BboxOf(c)
                          /\ labels[k].aspect_ratio = <<6, 1>>
                          /\ labels[k].confidence = log[i].confidence

\* C22 witness: the label region is black and without any edge pixel, so both
\* the brightness and the edge factors are 0; it is returned with 0.54.
C22_Witness ==
    /\ DefaultOnPhoto /\ pc = "detected"
    /\ image.contours = <<Contour(250, 450, 300, 50, <<0, 1>>, 0)>>
    /\ Len(labels) = 1
    /\ labels[1].confidence = <<27, 50>>
    /\ labels[1].aspect_ratio = <<6, 1>>

----------------------------------------------------------------------------
(* The two selections compared on one list *)

\* The list in `labels` (centers, areas, confidences) handed to both
\* detectors' get_best_label with the strategy of the call.
SameSelection == get_best_label(labels, strategy) = yolo_get_best_label(labels, strategy)

\* C23: for every non-empty candidate list and every strategy string,
\* LabelDetector.get_best_label and YOLOLabelDetector.get_best_label return
\* the candidate at the same position of the list.
C23_SelectionsAgree ==
    (Selected /\ labels # <<>>) =>
        /\ SameSelection
        /\ best = get_best_label(labels, strategy)

\* C23, for every strategy string but 'center': the two selections agree.
C23_SelectionsAgreeButForCenter ==
    (Selected /\ labels # <<>> /\ strategy # "center") =>
        /\ SameSelection
        /\ best = get_best_label(labels, strategy)

----------------------------------------------------------------------------
(* What the operations leave alone *)

\* A step in which LabelDetector.get_best_label is called on `labels`.
GetBestLabelStep == pc = "detected" /\ detector = "heuristic" /\ pc' = "selected"

\* C24: no step of detect_shelf_labels, get_best_label or crop_to_label
\* changes a configuration field of the detector; get_best_label leaves the
\* list it was given as it was (length, order, every field of every
\* candidate) and, for a non-empty list, returns one of its elements.
C24_InputsAreNotMutated ==
    [][/\ config' = config
       /\ GetBestLabelStep =>
            /\ labels' = labels
            /\ labels # <<>> => /\ best'.exc = "none"
                                /\ best'.ref \in 1..Len(labels)
            /\ labels = <<>> => best' = [exc |-> "none", ref |-> 0]]_vars

\* C24 witness: detection, selection and the crop of the selection have run
\* on one detector; the selection was not the head of a list of three, and
\* the list is still the one detection returns for the image under the
\* configuration.
C24_Witness ==
    /\ pc = "cropped" /\ detector = "heuristic" /\ crop.by = "heuristic"
    /\ Len(labels) = 3
    /\ best.exc = "none" /\ best.ref \in 2..3
    /\ crop.bbox = labels[best.ref].bbox
    /\ labels = detect_shelf_labels(config, image_path, image, debug).labels

----------------------------------------------------------------------------
(* The YOLO pipeline *)

\* extract_text_with_yolo, or the wrapper around it, has returned from a
\* call with use_detection=True for which the model was not loaded.
ModelUnavailable ==
    /\ pc = "extracted"
    /\ ocr.by \in {"extract_text_with_yolo", "extract_text_from_image"}
    /\ ocr.use_detection /\ ~ocr.model_loaded

\* The success, text and error of the OCR of the file at image_path.
FullImageOcr == ocr_extract_text_from_image(image_path, Exists(image_path), ocr.response)

\* C25: extract_text_with_yolo with use_detection=True and no model loaded
\* returns (the action is the whole call, so nothing was raised) without
\* calling detect_labels; it has run the OCR once, on the file at
\* image_path, and returns that result with detection_used and label_found
\* False; the wrapper returns success, text and error of the same OCR.
C25_UnavailableModelUsesFullImage ==
    ModelUnavailable =>
        /\ ~ocr.detect_called
        /\ labels = <<>> /\ best = NoBest /\ crop = NoCrop
        /\ ocr.calls = <<OcrCall(image_path, <<0, 0, image.W, image.H>>)>>
        /\ ocr.temp = NoPath /\ ocr.files = {}
        /\ ocr.result.success = FullImageOcr.success
        /\ ocr.result.text = FullImageOcr.text
        /\ ocr.result.error = FullImageOcr.error
        /\ ocr.by = "extract_text_with_yolo" =>
              /\ ocr.result = yolo_ocr_extract_text_from_image(
                                  image_path, Exists(image_path), ocr.response)
              /\ ~ocr.result.detection_used
              /\ ~ocr.result.label_found
              /\ ocr.result.bbox = None
              /\ ocr.result.num_detections = 0

\* C25 witness: without a model, on an image in which the network would
\* have found boxes, the text of the full image was returned.
C25_Witness ==
    /\ ModelUnavailable /\ ocr.by = "extract_text_with_yolo"
    /\ image.readable /\ Len(image.boxes) = 2
    /\ ocr.calls = <<OcrCall("shelf.jpg", <<0, 0, 800, 600>>)>>
    /\ ocr.result.success /\ ocr.result.text = "MILK 2.49"
    /\ ~ocr.result.detection_used

\* C25 witness for the wrapper: without a model, on a file that does not
\* exist, it returns the failure of the OCR call.
C25_WrapperWitness ==
    /\ ModelUnavailable /\ ocr.by = "extract_text_from_image"
    /\ image_path = "missing.jpg"
    /\ ocr.result = [success |-> FALSE, text |-> "",
                     error |-> <<"Image file not found: ", "missing.jpg">>]

----------------------------------------------------------------------------
(* The confidence as a formula of the box and its region *)

\* min(a, b) and |a - b| of two rationals, by cross-multiplication.
Least(a, b) == IF a[1] * b[2] <= b[1] * a[2] THEN a ELSE b
Gap(a, b) == IF a[1] * b[2] <= b[1] * a[2] THEN RSub(b, a) ELSE RSub(a, b)

\* 1 inside the band [lo, hi] of the extent, limits included, 0.5 outside.
InBand(center, extent, lo, hi) ==
    IF lo[1] * extent <= center * lo[2] /\ center * hi[2] <= hi[1] * extent
    THEN <<1, 1>> ELSE <<1, 2>>

\* min(1, 0.30 R + 0.20 B + 0.20 E + 0.15 V + 0.15 Hz) for a box with the
\* given center.
WeightedScore(c, center) ==
    LET R  == RSub(<<1, 1>>, Least(RDiv(Gap(Rat(c.w, c.h), <<5, 1>>), <<5, 1>>), <<1, 1>>))
        B  == Least(RDiv(c.mean, <<200, 1>>), <<1, 1>>)
        D  == RSub(<<1, 1>>, RDiv(Gap(Rat(c.edges, c.w * c.h), <<3, 20>>), <<3, 20>>))
        E  == IF D[1] < 0 THEN <<0, 1>> ELSE Least(D, <<1, 1>>)
        V  == InBand(center[2], image.H, <<1, 2>>, <<9, 10>>)
        Hz == InBand(center[1], image.W, <<1, 10>>, <<9, 10>>)
    IN  Least(RAdd(RAdd(RAdd(RAdd(RMul(<<3, 10>>, R), RMul(<<1, 5>>, B)),
                             RMul(<<1, 5>>, E)),
                        RMul(<<3, 20>>, V)),
                   RMul(<<3, 20>>, Hz)),
              <<1, 1>>)

\* C26: the confidence of every admissible box is
\* min(1, 0.30 R + 0.20 B + 0.20 E + 0.15 V + 0.15 Hz), with V and Hz taken
\* at the center (x + w div 2, y + h div 2); a returned candidate stores
\* that center and the confidence the formula gives for it.
C26_ConfidenceIsWeightedScore ==
    (HeuristicReturned /\ image.readable) =>
        \A i \in 1..Len(image.contours) :
            LET c == image.contours[i]
            IN  log[i].valid =>
                  /\ log[i].confidence =
                        WeightedScore(c, <<c.x + (c.w \div 2), c.y + (c.h \div 2)>>)
                  /\ \A k \in 1..Len(labels) :
                        labels[k].bbox = BboxOf(c) =>
                          /\ labels[k].center = <<c.x + (c.w \div 2), c.y + (c.h \div 2)>>
                          /\ labels[k].confidence = WeightedScore(c, labels[k].center)

\* C26 witness: a box whose center is at exactly 0.1 of the width and 0.5 of
\* the height was returned with both position factors 1:
\* 0.30 + 0.20 * 0.9 + 0.20 * 1 + 0.15 + 0.15 = 0.98.
C26_Witness ==
    /\ HeuristicReturned /\ config = ThumbConfig
    /\ image.contours = <<Contour(30, 290, 100, 20, <<180, 1>>, 300)>>
    /\ Len(labels) = 1
    /\ labels[1].center = <<80, 300>>
    /\ labels[1].confidence = <<49, 50>>

----------------------------------------------------------------------------
(* Boxes of height 0 *)

\* The loop body has run on a raw box of height 0.
ZeroHeightBoxFiltered == pc = "filtered" /\ image.contours[1].h = 0

\* The configuration bounds the height or the aspect ratio from below.
BoundedBelow == config.min_height >= 1 \/ config.min_aspect_ratio[1] > 0

C27_ZeroHeightScoredOnlyIfUnbounded ==
    ZeroHeightBoxFiltered =>
        LET c == image.contours[1]
        IN  /\ log[1].aspect_ratio = <<0, 1>>
            /\ BoundedBelow => (~log[1].valid /\ ~log[1].scored /\ ~log[1].zero_division)
            /\ ~BoundedBelow =>
                  /\ log[1].valid <=> (c.w >= config.min_width /\ WidthRule(c) /\ PositionRule(c))
                  /\ log[1].scored <=> log[1].valid
                  /\ log[1].zero_division <=> log[1].valid

\* C27, the guarded case: under a configuration with min_height = 0 and the default
\* aspect band, a line of 10 x 0 pixels in the lower part of the image was
\* rejected: its aspect ratio 0 is below 2.5.
C27_Witness ==
    /\ ZeroHeightBoxFiltered
    /\ config = [ThumbConfig EXCEPT !.min_height = 0]
    /\ BboxOf(image.contours[1]) = <<10, 10, 10, 0>>
    /\ <<image.W, image.H>> = ThumbDims
    /\ log[1].aspect_ratio = <<0, 1>>
    /\ ~log[1].valid /\ ~log[1].scored

\* C27: with min_height = 0 and min_aspect_ratio = 0 the same line passes
\* the filter and is scored.
C27_ZeroHeightScored ==
    /\ ZeroHeightBoxFiltered
    /\ ~BoundedBelow
    /\ BboxOf(image.contours[1]) = <<10, 10, 10, 0>>
    /\ log[1].scored /\ log[1].zero_division

----------------------------------------------------------------------------
(* The temporary crop file *)

\* One of the two pipelines has returned.
PipelineReturned ==
    /\ pc = "extracted"
    /\ ocr.by \in {"extract_text_with_label_detection", "extract_text_with_yolo"}

\* The call raised inside the try block after mkstemp had created the file.
RaisedAfterMkstemp ==
    /\ ocr.temp = TempCrop
    /\ ocr.calls = <<>>
    /\ ocr.result.error[1] \in {"Label detection error: ", "YOLO detection error: "}

\* C28: when extract_text_with_label_detection or extract_text_with_yolo has
\* returned, whether the OCR succeeded, failed, or the crop raised, the
\* temporary file mkstemp created is not on disk; only a crop asked for with
\* save_cropped is left.
C28_TempCropIsRemoved ==
    PipelineReturned =>
        /\ TempCrop \notin ocr.files
        /\ ocr.files \subseteq {SavedCrop, YoloSavedCrop}
        /\ ocr.files # {} => ocr.save_cropped
        /\ ocr.temp \in {NoPath, TempCrop}

\* C28 witness: the most confident box of the network was narrower than a
\* pixel, writing its empty crop to the temporary file raised, and the file
\* is gone.
C28_Witness ==
    /\ PipelineReturned /\ ocr.by = "extract_text_with_yolo"
    /\ RaisedAfterMkstemp
    /\ ocr.result.bbox = <<10, 5, 10, 15>>
    /\ ocr.result.error = <<"YOLO detection error: ", "!_img.empty() in function 'imwrite'">>
    /\ ocr.files = {}

\* C28 on the other two ways out: the OCR of the crop failed, or succeeded
\* with the crop also saved under its permanent name.
C28_OcrFailedWitness ==
    /\ PipelineReturned /\ ocr.by = "extract_text_with_label_detection"
    /\ ocr.temp = TempCrop /\ Len(ocr.calls) = 1 /\ ocr.calls[1].file = TempCrop
    /\ ~ocr.result.success
    /\ ocr.files = {}

C28_SavedCropWitness ==
    /\ PipelineReturned /\ ocr.by = "extract_text_with_label_detection"
    /\ ocr.temp = TempCrop /\ ocr.result.success
    /\ ocr.files = {SavedCrop}

----------------------------------------------------------------------------
(* Failures inside extract_text_with_label_detection *)

\* extract_text_with_label_detection has returned.
HeuristicPipelineReturned ==
    pc = "extracted" /\ ocr.by = "extract_text_with_label_detection"

\* cv2.imread, in detect_shelf_labels, could not decode the image.
LoadFailed == ocr.use_detection /\ ~image.readable

\* A step after the selection threw: mkstemp or crop_to_label.
CropStepThrew == ocr.use_detection /\ labels # <<>> /\ (~ocr.mkstemp_ok \/ ~crop.saved)

\* C29: extract_text_with_label_detection always returns a dict.  When the
\* image cannot be decoded, or a later step throws, the dict has success
\* False, label_found as it was set before the exception and an error that
\* starts with 'Label detection error:'; when the image cannot be decoded,
\* no OCR call is made.
C29_FailuresAreReturned ==
    HeuristicPipelineReturned =>
        /\ exc = "none"
        /\ DOMAIN ocr.result = DOMAIN ResultDict(TRUE)
        /\ ocr.result.success \in BOOLEAN
        /\ (LoadFailed \/ CropStepThrew) =>
              /\ ~ocr.result.success
              /\ ocr.result.error[1] = "Label detection error: "
              /\ ocr.result.label_found <=> labels # <<>>
              /\ ocr.result.detection_used
              /\ ocr.calls = <<>>
        /\ LoadFailed =>
              /\ ocr.result = [ResultDict(TRUE) EXCEPT !.error =
                                 <<"Label detection error: ", "Could not read image: ",
                                   image_path>>]
              /\ ocr.calls = <<>>
              /\ labels = <<>> /\ crop = NoCrop /\ ocr.files = {}

\* C29 witness: a file that exists and is no image was given with
\* use_detection=True; the failure was returned and the OCR was not called.
C29_Witness ==
    /\ HeuristicPipelineReturned /\ LoadFailed
    /\ image_path = "notes.txt"
    /\ ~ocr.result.success /\ ~ocr.result.label_found
    /\ ocr.result.error = <<"Label detection error: ", "Could not read image: ", "notes.txt">>
    /\ ocr.calls = <<>>

\* C29, a later step: the temporary file could not be created after a label
\* had been selected; label_found stays True.
C29_LaterStepWitness ==
    /\ HeuristicPipelineReturned /\ CropStepThrew
    /\ ocr.result.label_found /\ ~ocr.result.success
    /\ ocr.result.bbox = <<250, 450, 300, 50>>
    /\ ocr.result.error[1] = "Label detection error: "

----------------------------------------------------------------------------
(* The uploaded file *)

\* The last /upload request saved its file.
UploadSaved == web.saved # 0

\* C30: when the /upload response is an error after the file was saved, the
\* file is no longer in the upload folder; the file is on disk, and is
\* session['last_upload'], only when the response is the success response.
C30_SavedFileRemovedOnError ==
    UploadSaved =>
        /\ web.status # 200 => web.saved \notin web.folder
        /\ (web.saved \in web.folder \/ web.last_upload = web.saved) => web.status = 200

\* C30, with the API key configured: the claim holds, and the success
\* response leaves the file on disk and in the session.
C30_SavedFileRemovedOnErrorWithKey ==
    (UploadSaved /\ web.api_key) =>
        /\ web.status # 200 => web.saved \notin web.folder
        /\ (web.saved \in web.folder \/ web.last_upload = web.saved) => web.status = 200
        /\ web.status = 200 => (web.saved \in web.folder /\ web.last_upload = web.saved)

\* C30: with the key configured, the OCR of the second upload failed after
\* the first had succeeded; only the first file is on disk.
C30_RemovedOnOcrFailure ==
    /\ UploadSaved /\ web.api_key
    /\ web.saved = 2 /\ web.status = 500 /\ web.error = "OCR failed"
    /\ web.folder = {1} /\ web.last_upload = 1

====
